---------------------------- MODULE Spec2Model ----------------------------
(***************************************************************************)
(* State-machine model of sol-pool-watcher: the event bus and its two      *)
(* consumers (log ingestor, enrichment pipeline with dedup and per-pool    *)
(* handlers), the file sink's background writer, and the pool watcher      *)
(* (snapshot, live subscription, resync timer).                            *)
(***************************************************************************)
EXTENDS Integers, Sequences, FiniteSets, TLC

(***************************************************************************)
(* Bounds of the model.  The LRU and bus capacities are 10_000, 20_000 and *)
(* 2048 in the program (arb-notify.rs:219, :222, :37); the model keeps the *)
(* data structures and scales the capacities down.                         *)
(***************************************************************************)
SeenCap == 1
MintCap == 2
BusCap == 1
MaxPublish == 3
MaxTicks == 2
MaxHandlers == 2
ChanCap == 2
MaxWrites == 3
MaxDay == 1
MaxSinkHandles == 2
MaxLive == 1
MaxResyncTicks == 2

NPools == SeenCap + 1
Pools == 1..NPools
ProgramId == NPools + 1
QuoteMint == NPools + 2

\* Option<T>: None is the empty sequence, Some(x) the one-element sequence.
NoneV == <<>>
Some(x) == <<x>>

\* arb-notify.rs:233  let ttl = 5 * 60 * 1000;
ttl == 5 * 60 * 1000
ClockSteps == {1, ttl - 1}

VARIABLES
    now, ticks,                 \* wall clock (ms) read by current_ms()
    bus, busTail,               \* PoolBus: retained events, number published
    next, pc, lagged,           \* per consumer: cursor, loop position, saw Lagged
    seen, evicted,              \* dedup LRU (LRU first, MRU last); pools evicted since last accept
    mint_cache,                 \* mint report LRU
    handlers,                   \* detached handle_pool_event tasks, by bus position
    hypeKeys                    \* keys of HypeAggregator.map

pipeVars == <<now, ticks, bus, busTail, next, pc, lagged, seen, evicted,
              mint_cache, handlers, hypeKeys>>

VARIABLES
    sinkHandles,                \* live FileSink handles (clones of the sender)
    chan,                       \* mpsc channel of (stream, line), oldest first
    buffers,                    \* writer's map path -> buffered lines
    files,                      \* file contents, path -> tokens appended
    wpc,                        \* writer task: "loop" or "exited"
    tickReady,                  \* the 700 ms interval has a tick due
    day, rotate,                \* UTC date; FileSinkCfg.rotate_daily
    recs                        \* per record id: what became of it

sinkVars == <<sinkHandles, chan, buffers, files, wpc, tickReady, day, rotate, recs>>

VARIABLES
    inventory,                  \* Inventory: program -> set of pool accounts
    published,                  \* events handed to PoolBus::publish since the last
                                \* ResyncTick (that tick included), in order
    runPc, progIdx,             \* PoolWatcher::run: position, program being snapshotted
    list, count,                \* full_snapshot_program: accounts left, decoded so far
    snapId,                     \* number of snapshots started since the last tick
    listed,                     \* per snapshot: Some(decodable accounts the RPC
                                \* returned), NoneV while it has returned nothing
    subsOn,                     \* the subscriptions have been spawned
    live,                       \* per program: the live update being handled
    liveLeft,                   \* live updates still to come
    subs,                       \* per program: its two subscription tasks
    attempted                   \* programs whose initial snapshot has returned

watchVars == <<inventory, published, runPc, progIdx, list, count, snapId, listed,
               subsOn, live, liveLeft, subs, attempted>>

VARIABLES
    periodic_resync_min,        \* cfg.periodic_resync_min, a u64 (limbs, lowest first)
    overflow_checks,            \* the build panics on integer overflow (debug profile)
    mins,                       \* `let mins = ...` of PoolWatcher::run
    wait,                       \* seconds handed to the current or last sleep
    timerPc,                    \* position in the resync loop
    resyncTicks                 \* ResyncTick events published by the loop

timerVars == <<periodic_resync_min, overflow_checks, mins, wait, timerPc, resyncTicks>>

VARIABLES
    fetchPath,                  \* which code fetches the mint account
    fetchMint,                  \* the mint being fetched
    attempt,                    \* `attempt` of the retry loop (from 0)
    delay,                      \* `delay` of the retry loop, in ms
    calls,                      \* get_account calls made so far
    errs,                       \* the errors of the failed calls, in order
    waits,                      \* the sleeps made so far, in ms, in order
    fetchPc,                    \* "call", "sleep" or "done"
    fetchResult                 \* NoneV, Some("Ok") or Some(<<"Err", e>>)

fetchVars == <<fetchPath, fetchMint, attempt, delay, calls, errs, waits, fetchPc,
               fetchResult>>

VARIABLES
    mintAcc,                    \* the mint account the RPC returned
    policy,                     \* the policy the caller passes
    route_supports_memo,        \* whether the route can attach a memo
    report,                     \* TokenSafetyReport of token_decode::analyze_mint
    safety,                     \* SafetyReport of mint_reader::analyze_mint
    decision,                   \* Decision of Policy::evaluate
    anaPc                       \* "idle", "analyzed", "failed", "inspected", "decided"

anaVars == <<mintAcc, policy, route_supports_memo, report, safety, decision, anaPc>>

VARIABLES
    hypeCfg,                    \* the aggregator's HypeConfig
    map,                        \* pool -> series of <<bucket timestamp, Bucket>>
    ingested,                   \* <<pool, ts_ms>> of the events ingested, in order
    hypeSnap,                   \* the result of the snapshot call
    snapPool,                   \* the pool the snapshot was asked for
    snapNow,                    \* current_ms() during the snapshot call
    hypePc                      \* "ingest" or "snapped"

hypeVars == <<hypeCfg, map, ingested, hypeSnap, snapPool, snapNow, hypePc>>

VARIABLES
    CONFIG_FEES,                \* raydium_clmm's process-wide config table
    decIn,                      \* the arguments of the last decoder call
    decoded,                    \* what the last decoder call returned
    feeless                     \* the first pool input decoded with fee_bps = None

decVars == <<CONFIG_FEES, decIn, decoded, feeless>>

VARIABLES
    dedChecks,                  \* the build panics on integer overflow
    dedCache,                   \* the LruCache<Pubkey, u64> the dedup calls share
    dedCall,                    \* the last dedup call and what it gave
    dedLog                      \* <<key, now, ttl, outcome>> of every call so far

dedVars == <<dedChecks, dedCache, dedCall, dedLog>>

VARIABLES
    seenLock,                   \* holder of the dedup Mutex: "free" or "pipeline"
    mintLock,                   \* holder of the mint-cache Mutex: None or Some(<<task, side>>)
    loop,                       \* spawn_pool_pipeline's loop: position and the event in hand
    lkSeen,                     \* the dedup LRU behind seenLock
    lkCache,                    \* the mint report LRU behind mintLock
    tasks,                      \* the spawned handle_pool_event tasks and their two futures
    lkCount                     \* events the loop has received

lockVars == <<seenLock, mintLock, loop, lkSeen, lkCache, tasks, lkCount>>

vars == <<pipeVars, sinkVars, watchVars, timerVars, fetchVars, anaVars, hypeVars, decVars,
               dedVars, lockVars>>

PipeOnly == UNCHANGED <<sinkVars, watchVars, timerVars, fetchVars, anaVars, hypeVars, decVars,
               dedVars, lockVars>>
SinkOnly == UNCHANGED <<pipeVars, watchVars, timerVars, fetchVars, anaVars, hypeVars, decVars,
               dedVars, lockVars>>
WatchOnly == UNCHANGED <<pipeVars, sinkVars, timerVars, fetchVars, anaVars, hypeVars, decVars,
               dedVars, lockVars>>
TimerOnly == UNCHANGED <<pipeVars, sinkVars, watchVars, fetchVars, anaVars, hypeVars, decVars,
               dedVars, lockVars>>
FetchOnly == UNCHANGED <<pipeVars, sinkVars, watchVars, timerVars, anaVars, hypeVars, decVars,
               dedVars, lockVars>>
AnaOnly == UNCHANGED <<pipeVars, sinkVars, watchVars, timerVars, fetchVars, hypeVars, decVars,
               dedVars, lockVars>>
HypeOnly ==
    UNCHANGED <<pipeVars, sinkVars, watchVars, timerVars, fetchVars, anaVars, decVars,
               dedVars, lockVars>>
DecOnly ==
    UNCHANGED <<pipeVars, sinkVars, watchVars, timerVars, fetchVars, anaVars, hypeVars,
               dedVars, lockVars>>
DedOnly ==
    UNCHANGED <<pipeVars, sinkVars, watchVars, timerVars, fetchVars, anaVars, hypeVars,
               decVars, lockVars>>
LockOnly ==
    UNCHANGED <<pipeVars, sinkVars, watchVars, timerVars, fetchVars, anaVars, hypeVars,
               decVars, dedVars>>

Consumers == {"pipeline", "ingestor"}

-----------------------------------------------------------------------------
(* lru::LruCache as a sequence of [k, v], least recently used first.       *)

LruIndex(c, k) ==
    IF \E i \in 1..Len(c) : c[i].k = k
    THEN CHOOSE i \in 1..Len(c) : c[i].k = k
    ELSE 0

LruHas_never(c, k) == FALSE

LruHas(c, k) == LruIndex(c, k) # 0

LruValue(c, k) == c[LruIndex(c, k)].v

LruWithout(c, i) == SubSeq(c, 1, i - 1) \o SubSeq(c, i + 1, Len(c))

\* LruCache::get: a hit moves the entry to the most-recently-used end.
LruGet(c, k) ==
    IF LruHas(c, k)
    THEN Append(LruWithout(c, LruIndex(c, k)), c[LruIndex(c, k)])
    ELSE c

\* LruCache::put: update in place and promote, or insert, evicting the
\* least recently used entry when the cache is full.
LruPut(c, k, v, cap) ==
    IF LruHas(c, k)
    THEN Append(LruWithout(c, LruIndex(c, k)), [k |-> k, v |-> v])
    ELSE IF Len(c) >= cap
         THEN Append(Tail(c), [k |-> k, v |-> v])
         ELSE Append(c, [k |-> k, v |-> v])

LruKeys(c) == {c[i].k : i \in 1..Len(c)}

-----------------------------------------------------------------------------
(* Events and the bus (tokio::sync::broadcast behind PoolBus).             *)

\* Decoded pools carry both mints; every pool here trades against QuoteMint.
PoolInfoOf(p) == [account |-> p, program |-> ProgramId,
                  base_mint |-> Some(p), quote_mint |-> Some(QuoteMint)]

AccountEvents == {[kind |-> k, program |-> ProgramId, info |-> Some(PoolInfoOf(p))] :
                     k \in {"AccountNew", "AccountChanged"}, p \in Pools}

OtherEvents == {[kind |-> k, program |-> ProgramId, info |-> NoneV] :
                     k \in {"ProgramLog", "ResyncTick"}}

Events == AccountEvents \cup OtherEvents

\* Position (1-based, in publication order) of the oldest retained event.
BusOldest == busTail - Len(bus) + 1

\* The event a receiver at cursor n reads.
BusAt(n) == bus[n - BusOldest + 1]

\* PoolBus::publish: broadcast send overwrites the oldest slot when full.
publish(ev) ==
    /\ busTail < MaxPublish
    /\ busTail' = busTail + 1
    /\ bus' = IF Len(bus) >= BusCap THEN Append(Tail(bus), ev) ELSE Append(bus, ev)

IdleHandler == [hpc |-> "idle", pool |-> 0, at |-> 0, afterEvict |-> FALSE,
                futA |-> "check", futB |-> "check", anaFailed |-> FALSE,
                analyzed |-> {},        \* sides whose lookup missed (while joining)
                liq |-> "unset", hype |-> "unset",
                alertWrites |-> 0, alertRes |-> "none",
                tgCalls |-> 0, tgResult |-> "none",
                errRecs |-> <<>>, result |-> "none"]

PipeInit ==
    /\ now = 0
    /\ ticks = 0
    /\ bus = <<>>
    /\ busTail = 0
    /\ next = [c \in Consumers |-> 1]
    /\ pc = [c \in Consumers |-> "recv"]
    /\ lagged = [c \in Consumers |-> FALSE]
    /\ seen = <<>>
    /\ evicted = {}
    /\ mint_cache = <<>>
    /\ handlers = [h \in 1..MaxPublish |-> IdleHandler]
    /\ hypeKeys = {}

\* current_ms(): the wall clock moves forward between reads.
ClockAdvance ==
    /\ ticks < MaxTicks
    /\ \E d \in ClockSteps : now' = now + d
    /\ ticks' = ticks + 1
    /\ UNCHANGED <<bus, busTail, next, pc, lagged, seen, evicted, mint_cache,
                   handlers, hypeKeys>>
    /\ PipeOnly

\* The watcher (or any holder of the bus) publishes an event.
WatcherPublish ==
    /\ \E ev \in Events : publish(ev)
    /\ UNCHANGED <<now, ticks, next, pc, lagged, seen, evicted, mint_cache,
                   handlers, hypeKeys>>
    /\ PipeOnly

-----------------------------------------------------------------------------
(* The two bus consumers of arb-notify.                                    *)

\* rx.recv() returns Err(Lagged) once the cursor's slot was overwritten;
\* `while let Ok(ev) = rx.recv().await` then leaves the loop.
ConsumerLagged(c) ==
    /\ pc[c] = "recv"
    /\ next[c] < BusOldest
    /\ next' = [next EXCEPT ![c] = BusOldest]
    /\ lagged' = [lagged EXCEPT ![c] = TRUE]
    /\ pc' = [pc EXCEPT ![c] = "exited"]

\* rx.recv() returns Ok(ev): the cursor's slot is still retained.
ConsumerTakes(c) ==
    /\ pc[c] = "recv"
    /\ next[c] >= BusOldest
    /\ next[c] <= busTail
    /\ next' = [next EXCEPT ![c] = next[c] + 1]
    /\ UNCHANGED <<pc, lagged>>
    /\ PipeOnly

IngestorLagged ==
    /\ ConsumerLagged("ingestor")
    /\ UNCHANGED <<now, ticks, bus, busTail, seen, evicted, mint_cache,
                   handlers, hypeKeys>>
    /\ PipeOnly

\* spawn_logs_ingestor: a ProgramLog is ingested under pool = program.
IngestorRecv ==
    /\ ConsumerTakes("ingestor")
    /\ LET ev == BusAt(next["ingestor"])
       IN hypeKeys' = IF ev.kind = "ProgramLog"
                      THEN hypeKeys \cup {ev.program}
                      ELSE hypeKeys
    /\ UNCHANGED <<now, ticks, bus, busTail, seen, evicted, mint_cache, handlers>>
    /\ PipeOnly

\* `if now - ts < ttl { process = false }`
DedupExpired_offby(ts, t) == ~(t - ts < ttl - 1)

DedupExpired(ts, t) == ~(t - ts < ttl)

\* The check-then-insert on the dedup LRU under one lock acquisition.
should_process_nostore(cache, key, t) ==
    LET hit == LruHas(cache, key)
        process == IF hit THEN DedupExpired(LruValue(cache, key), t) ELSE TRUE
    IN [process |-> process, cache |-> LruGet(cache, key)]

should_process(cache, key, t) ==
    LET hit == LruHas(cache, key)
        c1 == LruGet(cache, key)
        process == IF hit THEN DedupExpired(LruValue(cache, key), t) ELSE TRUE
    IN [process |-> process,
        cache |-> IF process THEN LruPut(c1, key, t, SeenCap) ELSE c1]

PipelineLagged ==
    /\ ConsumerLagged("pipeline")
    /\ UNCHANGED <<now, ticks, bus, busTail, seen, evicted, mint_cache,
                   handlers, hypeKeys>>
    /\ PipeOnly

\* `tokio::spawn(async move { handle_pool_event(..).await })`
SpawnHandler(n, pool, t, afterEv) ==
    [handlers EXCEPT ![n] = [IdleHandler EXCEPT !.hpc = "join", !.pool = pool,
                                                !.at = t, !.afterEvict = afterEv]]

\* spawn_pool_pipeline's loop body for one received event.
PipelineRecv ==
    /\ ConsumerTakes("pipeline")
    /\ LET n == next["pipeline"]
           ev == BusAt(n)
       IN IF /\ ev.kind \in {"AccountNew", "AccountChanged"}
             /\ ev.info[1].base_mint # NoneV
             /\ ev.info[1].quote_mint # NoneV
          THEN LET pool == ev.info[1].account
                   r == should_process(seen, pool, now)
               IN /\ seen' = r.cache
                  /\ evicted' = (evicted \cup (LruKeys(seen) \ LruKeys(r.cache)))
                                    \ (IF r.process THEN {pool} ELSE {})
                  /\ handlers' =
                        IF r.process
                        THEN SpawnHandler(n, pool, now, pool \in evicted)
                        ELSE handlers
          ELSE UNCHANGED <<seen, evicted, handlers>>
    /\ UNCHANGED <<now, ticks, bus, busTail, mint_cache, hypeKeys>>
    /\ PipeOnly

-----------------------------------------------------------------------------
(* handle_pool_event, one detached task per accepted event.                *)

Spawned(h) == handlers[h].hpc # "idle"

MintOf(h, side) == IF side = "A" THEN handlers[h].pool ELSE QuoteMint

FutOf(h, side) == IF side = "A" THEN handlers[h].futA ELSE handlers[h].futB

SetFut(h, side, v) ==
    IF side = "A" THEN [handlers EXCEPT ![h].futA = v]
                  ELSE [handlers EXCEPT ![h].futB = v]

\* fut_a / fut_b, first half: lock the mint cache and look the mint up.
FutCheck(h, side) ==
    /\ handlers[h].hpc = "join"
    /\ FutOf(h, side) = "check"
    /\ mint_cache' = LruGet(mint_cache, MintOf(h, side))
    /\ handlers' = [SetFut(h, side, IF LruHas(mint_cache, MintOf(h, side))
                                    THEN "ok" ELSE "analyze")
                      EXCEPT ![h].analyzed =
                                IF LruHas(mint_cache, MintOf(h, side))
                                THEN handlers[h].analyzed
                                ELSE handlers[h].analyzed \cup {side}]
    /\ UNCHANGED <<now, ticks, bus, busTail, next, pc, lagged, seen, evicted, hypeKeys>>
    /\ PipeOnly

\* try_join!: the first Err ends the join and the handler with it; the
\* other future is dropped where it stands.
JoinAborts_lenient(analysis_ok) == FALSE

JoinAborts(analysis_ok) == ~analysis_ok

\* fut_a / fut_b, second half: analyze_mint returns; on success the report
\* is stored in the cache.
FutAnalyze(h, side) ==
    /\ handlers[h].hpc = "join"
    /\ FutOf(h, side) = "analyze"
    /\ \E analysis_ok \in BOOLEAN :
          IF JoinAborts(analysis_ok)
          THEN /\ handlers' = [handlers EXCEPT ![h].hpc = "failed", ![h].result = "err",
                                               ![h].anaFailed = TRUE,
                                               ![h].analyzed = {}]
               /\ UNCHANGED mint_cache
          ELSE /\ handlers' = [SetFut(h, side, "ok") EXCEPT
                                  ![h].anaFailed = handlers[h].anaFailed \/ ~analysis_ok]
               /\ mint_cache' = IF analysis_ok
                                THEN LruPut(mint_cache, MintOf(h, side), "report", MintCap)
                                ELSE mint_cache
    /\ UNCHANGED <<now, ticks, bus, busTail, next, pc, lagged, seen, evicted, hypeKeys>>
    /\ PipeOnly

\* The PoolInput the handler builds: no vaults, no sqrt price, not CLMM.
PoolInputOf(h) == [pool |-> handlers[h].pool, vault_a |-> NoneV, vault_b |-> NoneV,
                   sqrt_price_x64 |-> NoneV, is_clmm |-> FALSE]

\* compute_quick fails only where get_multiple_accounts is called and fails.
compute_quick(inp, rpc_ok) ==
    IF inp.vault_a # NoneV /\ inp.vault_b # NoneV /\ ~rpc_ok THEN "Err" ELSE "Ok"

\* `let liq = match compute_quick(..) { Ok(v) => Some(v), Err(e) => None }`
LiqField(res) == IF res = "Ok" THEN "some" ELSE "none"

\* HypeAggregator::snapshot: `map.get(pool)?`
snapshot(pool) == IF pool \in hypeKeys THEN "some" ELSE "none"

\* `let hype_snap = hype.snapshot(&pool).await;` then the alert is built.
HypeField_required(snap) == IF snap = "some" THEN "some" ELSE "abort"

HypeField(snap) == snap

\* Both analyses are in: compute_quick runs (no await in between).
HandlerLiq(h) ==
    /\ handlers[h].hpc = "join"
    /\ handlers[h].futA = "ok"
    /\ handlers[h].futB = "ok"
    /\ \E rpc_ok \in BOOLEAN :
          LET l == LiqField(compute_quick(PoolInputOf(h), rpc_ok))
          IN handlers' = IF l = "abort"
                         THEN [handlers EXCEPT ![h].hpc = "failed", ![h].result = "err",
                                               ![h].analyzed = {}]
                         ELSE [handlers EXCEPT ![h].hpc = "hype", ![h].liq = l,
                                               ![h].analyzed = {}]
    /\ UNCHANGED <<now, ticks, bus, busTail, next, pc, lagged, seen, evicted,
                   mint_cache, hypeKeys>>
    /\ PipeOnly

HandlerSnapshot(h) ==
    /\ handlers[h].hpc = "hype"
    /\ LET s == HypeField(snapshot(handlers[h].pool))
       IN handlers' = IF s = "abort"
                      THEN [handlers EXCEPT ![h].hpc = "failed", ![h].result = "err"]
                      ELSE [handlers EXCEPT ![h].hpc = "sink", ![h].hype = s]
    /\ UNCHANGED <<now, ticks, bus, busTail, next, pc, lagged, seen, evicted,
                   mint_cache, hypeKeys>>
    /\ PipeOnly

\* FileSink::write_json: the send fails only once the writer has dropped
\* the receiver, which it cannot do while a handler holds a sender.
write_json(writer_alive) == IF writer_alive THEN "Ok" ELSE "Err"

\* sink.write_json("alerts_enriched", &alert): an Err is logged only.
HandlerSink(h) ==
    /\ handlers[h].hpc = "sink"
    /\ handlers' = [handlers EXCEPT ![h].hpc = "send",
                                    ![h].alertRes = write_json(TRUE),
                                    ![h].alertWrites = handlers[h].alertWrites + 1]
    /\ UNCHANGED <<now, ticks, bus, busTail, next, pc, lagged, seen, evicted,
                   mint_cache, hypeKeys>>
    /\ PipeOnly

\* `if let Err(e) = tg.send_enriched_alert(&alert).await { .. errors .. }`
SendFailedBranch_always(res) == TRUE

SendFailedBranch(res) == res = "err"

\* tg.send_enriched_alert(&alert): the publisher answers success or failure.
HandlerSend(h) ==
    /\ handlers[h].hpc = "send"
    /\ \E res \in {"ok", "err"} :
          handlers' = [handlers EXCEPT
                          ![h].tgCalls = handlers[h].tgCalls + 1,
                          ![h].tgResult = res,
                          ![h].hpc = IF SendFailedBranch(res) THEN "errsink" ELSE "done",
                          ![h].result = IF SendFailedBranch(res) THEN "none" ELSE "ok"]
    /\ UNCHANGED <<now, ticks, bus, busTail, next, pc, lagged, seen, evicted,
                   mint_cache, hypeKeys>>
    /\ PipeOnly

\* `let _ = sink.write_json("errors", &err).await;` then `Ok(())`.
HandlerErrSink(h) ==
    /\ handlers[h].hpc = "errsink"
    /\ handlers' = [handlers EXCEPT
                       ![h].errRecs = Append(handlers[h].errRecs,
                                             [pool |-> handlers[h].pool, err |-> "send failed"]),
                       ![h].hpc = "done",
                       ![h].result = "ok"]
    /\ UNCHANGED <<now, ticks, bus, busTail, next, pc, lagged, seen, evicted,
                   mint_cache, hypeKeys>>
    /\ PipeOnly

HandlerIds == 1..MaxPublish

\* The pipeline accepts an event of pool p and detaches its handler (the
\* accepting branch of the loop body, bus and dedup left aside).
PipelineAccepts ==
    /\ \E h \in 1..MaxHandlers, p \in Pools :
          /\ ~Spawned(h)
          /\ \A g \in 1..(h - 1) : Spawned(g)
          /\ handlers' = SpawnHandler(h, p, now, FALSE)
    /\ UNCHANGED <<now, ticks, bus, busTail, next, pc, lagged, seen, evicted,
                   mint_cache, hypeKeys>>
    /\ PipeOnly

\* The ingestor stores a ProgramLog under the program's key.
IngestorIngests ==
    /\ hypeKeys' = hypeKeys \cup {ProgramId}
    /\ UNCHANGED <<now, ticks, bus, busTail, next, pc, lagged, seen, evicted,
                   mint_cache, handlers>>
    /\ PipeOnly

-----------------------------------------------------------------------------
(* FileSink: write_json on the handles, the background writer task.        *)

Streams == {"alerts_enriched", "errors"}

Digits == <<"1", "2", "3", "4", "5", "6", "7", "8", "9">>

\* serde_json::to_string(value) for the i-th value written, as tokens.
JsonOf(i) == <<"{", Digits[i], "}">>

\* `let line = serde_json::to_string(value)? + "\n";`
LineOf(i) == JsonOf(i) \o <<"\n">>

\* The record a line was made from.
IdOfLine(line) == CHOOSE i \in 1..MaxWrites : LineOf(i) = line

\* `dir.join(format!("{}-{:04}-{:02}-{:02}.jsonl", ..))` or `"{}.jsonl"`.
PathOf(stream, rot, d) == [stream |-> stream, date |-> IF rot THEN Some(d) ELSE NoneV]

Paths == [stream : Streams, date : {NoneV} \cup {Some(d) : d \in 0..MaxDay}]

\* What is remembered of the i-th value: how far it got, its stream, the
\* date of its receipt, the records drained by the same tick, and whether
\* an I/O failure of that tick lost it.
NewRec ==
    [st |-> "unsent", stream |-> "none", recvDay |-> 0, batch |-> {},
     ioLost |-> FALSE]

SinkInit ==
    /\ sinkHandles = 1
    /\ chan = <<>>
    /\ buffers = [p \in Paths |-> <<>>]
    /\ files = [p \in Paths |-> <<>>]
    /\ wpc = "loop"
    /\ tickReady = TRUE
    /\ day = 0
    /\ rotate \in BOOLEAN
    /\ recs = [i \in 1..MaxWrites |-> NewRec]

\* The next value to be written (values are numbered in call order).
NextId == IF \E i \in 1..MaxWrites : recs[i].st = "unsent"
          THEN CHOOSE i \in 1..MaxWrites :
                  recs[i].st = "unsent" /\ \A j \in 1..(i - 1) : recs[j].st # "unsent"
          ELSE 0

\* FileSink::write_json: Ok once the line is in the channel (the send
\* waits while the channel is full), Err when the receiver is gone.
SinkWrite ==
    /\ sinkHandles > 0
    /\ NextId # 0
    /\ Len(chan) < ChanCap
    /\ \E stream \in Streams :
          IF wpc = "exited"
          THEN /\ recs' = [recs EXCEPT ![NextId].st = "rejected", ![NextId].stream = stream]
               /\ UNCHANGED chan
          ELSE /\ chan' = Append(chan, [stream |-> stream, line |-> LineOf(NextId)])
               /\ recs' = [recs EXCEPT ![NextId].st = "accepted", ![NextId].stream = stream]
    /\ UNCHANGED <<sinkHandles, buffers, files, wpc, tickReady, day, rotate>>
    /\ SinkOnly

\* `sink.clone()`
SinkClone ==
    /\ sinkHandles > 0
    /\ sinkHandles < MaxSinkHandles
    /\ sinkHandles' = sinkHandles + 1
    /\ UNCHANGED <<chan, buffers, files, wpc, tickReady, day, rotate, recs>>
    /\ SinkOnly

\* A handle is dropped; the channel is closed once none is left.
SinkDrop ==
    /\ sinkHandles > 0
    /\ sinkHandles' = sinkHandles - 1
    /\ UNCHANGED <<chan, buffers, files, wpc, tickReady, day, rotate, recs>>
    /\ SinkOnly

\* 700 ms have passed since the last tick.
TickDue ==
    /\ wpc = "loop"
    /\ ~tickReady
    /\ tickReady' = TRUE
    /\ UNCHANGED <<sinkHandles, chan, buffers, files, wpc, day, rotate, recs>>
    /\ SinkOnly

\* Utc::now() passes midnight.
DayRolls ==
    /\ day < MaxDay
    /\ day' = day + 1
    /\ UNCHANGED <<sinkHandles, chan, buffers, files, wpc, tickReady, rotate, recs>>
    /\ SinkOnly

\* select! branch `Some((stream, line)) = rx.recv()`: the line is buffered
\* under the path of its stream and of the date of receipt.
WriterRecv ==
    /\ wpc = "loop"
    /\ chan # <<>>
    /\ LET m == Head(chan)
           path == PathOf(m.stream, rotate, day)
           i == IdOfLine(m.line)
       IN /\ buffers' = [buffers EXCEPT ![path] = Append(buffers[path], m.line)]
          /\ recs' = [recs EXCEPT ![i].st = "received", ![i].recvDay = day]
    /\ chan' = Tail(chan)
    /\ UNCHANGED <<sinkHandles, files, wpc, tickReady, day, rotate>>
    /\ SinkOnly

RxIsClosed_idle == TRUE

\* rx.is_closed(): every sender has been dropped (queued messages or not).
RxIsClosed == sinkHandles = 0

BuffersEmpty(b) == \A p \in Paths : b[p] = <<>>

RECURSIVE Concat(_)
Concat(ls) == IF ls = <<>> THEN <<>> ELSE Head(ls) \o Concat(Tail(ls))

\* write_lines: append the lines in order; `written` of them get through
\* before an I/O error (all of them when none occurs).
write_lines(file, lines, written) == file \o Concat(SubSeq(lines, 1, written))

\* Per path, how many of its buffered lines write_lines gets through.
WrittenChoices(b) ==
    LET busy == {p \in Paths : b[p] # <<>>}
    IN {[p \in Paths |-> IF p \in busy THEN w[p] ELSE 0] :
           w \in {v \in [busy -> 0..MaxWrites] : \A p \in busy : v[p] <= Len(b[p])}}

\* `buffers.drain()`: the map is emptied whatever write_lines meets.
drain_keepfailed(b, written) ==
    [p \in Paths |-> SubSeq(b[p], written[p] + 1, Len(b[p]))]

drain_nothing(b, written) == b

drain(b, written) == [p \in Paths |-> <<>>]

\* `if !buffers.is_empty() { flush_buffers(&mut buffers).await; }`
FlushDue_onclose(b) == ~BuffersEmpty(b) /\ RxIsClosed

FlushDue(b) == ~BuffersEmpty(b)

\* select! branch `_ = ticker.tick()`: leave when nothing is buffered and
\* the channel is closed, else flush every buffered path (the map is
\* drained whatever the I/O result) and leave when the channel is closed.
WriterTick ==
    /\ wpc = "loop"
    /\ tickReady
    /\ tickReady' = FALSE
    /\ IF BuffersEmpty(buffers) /\ RxIsClosed
       THEN /\ wpc' = "exited"
            /\ UNCHANGED <<buffers, files, recs>>
       ELSE /\ \E written \in WrittenChoices(buffers) :
                  /\ IF FlushDue(buffers)
                     THEN /\ files' = [p \in Paths |->
                                          write_lines(files[p], buffers[p], written[p])]
                          /\ buffers' = drain(buffers, written)
                     ELSE /\ \A p \in Paths : written[p] = Len(buffers[p])
                          /\ UNCHANGED <<files, buffers>>
                  /\ recs' = [i \in 1..MaxWrites |->
                                IF recs[i].st = "received"
                                THEN [recs[i] EXCEPT
                                        !.st = "ticked",
                                        !.batch = {j \in 1..MaxWrites :
                                                      recs[j].st = "received"},
                                        !.ioLost =
                                           \E p \in Paths : \E n \in 1..Len(buffers[p]) :
                                              /\ buffers[p][n] = LineOf(i)
                                              /\ n > written[p]]
                                ELSE recs[i]]
            /\ wpc' = IF RxIsClosed /\ BuffersEmpty(buffers') THEN "exited" ELSE "loop"
    /\ UNCHANGED <<sinkHandles, chan, day, rotate>>
    /\ SinkOnly

-----------------------------------------------------------------------------
(* PoolWatcher: snapshots, the live program-accounts subscription, resync. *)

\* cfg.programs, by position: a configuration of two programs.
Programs == {1, 2}

LastProgram == CHOOSE g \in Programs : \A q \in Programs : q <= g

\* Account keys whose data decodes to a pool; key 0 stands for an account
\* whose data is too short for the decoder.
Keys == {1, 2}

\* decode_pool: Some(info) or None, by the account's data.
decode_pool(key) == IF key \in Keys THEN Some(key) ELSE NoneV

\* What get_program_accounts_with_config may return on success.
Listings == {<<>>, <<0, 2>>, <<2, 1>>}

Ev(kind, prog, acc, n, src, sid, known) ==
    [kind |-> kind, program |-> prog, account |-> acc, count |-> n,
     src |-> src, snap |-> sid, known |-> known, overtook |-> FALSE]

\* Inventory::upsert
upsert(inv, prog, acc) == [inv EXCEPT ![prog] = inv[prog] \cup {acc}]

\* Inventory::count_program
count_program(inv, prog) == Cardinality(inv[prog])

\* The two subscription tasks of a program: where each is, how many were
\* spawned, what the tasks have logged with error!, and the program's
\* inventory when the accounts loop ended.
NoSubs ==
    [accounts |-> "none", logs |-> "none", nAccounts |-> 0, nLogs |-> 0,
     logged |-> {}, atEnd |-> {}]

WatchInit ==
    /\ inventory = [g \in Programs |-> {}]
    /\ published = <<>>
    /\ runPc = "snap_start"
    /\ progIdx = 1
    /\ list = <<>>
    /\ count = 0
    /\ snapId = 0
    /\ listed = <<>>
    /\ subsOn = FALSE
    /\ live = [g \in Programs |-> NoneV]
    /\ liveLeft = MaxLive
    /\ subs = [g \in Programs |-> NoSubs]
    /\ attempted = {}

AfterSnapshot_firstonly ==
    /\ attempted' = IF subsOn THEN attempted ELSE attempted \cup {progIdx}
    /\ progIdx' = 1
    /\ runPc' = IF subsOn THEN "sleep" ELSE "spawn_subs"

AfterSnapshot_respawn ==
    /\ attempted' = IF subsOn THEN attempted ELSE attempted \cup {progIdx}
    /\ IF progIdx < LastProgram
       THEN /\ progIdx' = progIdx + 1
            /\ runPc' = "snap_start"
       ELSE /\ progIdx' = 1
            /\ runPc' = "spawn_subs"

\* After the snapshot of the current program: the next program, or past
\* the loop (subscriptions after the initial pass, the timer after a resync).
AfterSnapshot ==
    /\ attempted' = IF subsOn THEN attempted ELSE attempted \cup {progIdx}
    /\ IF progIdx < LastProgram
       THEN /\ progIdx' = progIdx + 1
            /\ runPc' = "snap_start"
       ELSE /\ progIdx' = 1
            /\ runPc' = IF subsOn THEN "sleep" ELSE "spawn_subs"

\* `self.bus.publish(PoolEvent::SnapshotStarted { program: prog.id })`
SnapshotStart ==
    /\ runPc = "snap_start"
    /\ snapId' = snapId + 1
    /\ published' = Append(published,
                           Ev("SnapshotStarted", progIdx, 0, 0, "snap", snapId + 1, FALSE))
    /\ listed' = Append(listed, NoneV)
    /\ runPc' = "snap_fetch"
    /\ UNCHANGED <<inventory, progIdx, list, count, subsOn, live, liveLeft>>
    /\ UNCHANGED <<subs, attempted>>
    /\ WatchOnly

SnapshotFetchFails_finishes ==
    /\ runPc = "snap_fetch"
    /\ published' = Append(published,
                           Ev("SnapshotFinished", progIdx, 0, 0, "snap", snapId, FALSE))
    /\ AfterSnapshot
    /\ UNCHANGED <<inventory, list, count, snapId, listed, subsOn, live, liveLeft>>
    /\ UNCHANGED subs
    /\ WatchOnly

\* `rpc.get_program_accounts_with_config(..)?` fails: the snapshot returns
\* Err before anything is published, run() logs it and goes on.
SnapshotFetchFails ==
    /\ runPc = "snap_fetch"
    /\ AfterSnapshot
    /\ UNCHANGED <<inventory, published, list, count, snapId, listed, subsOn, live,
                   liveLeft>>
    /\ UNCHANGED subs
    /\ WatchOnly

SnapshotFetch ==
    /\ runPc = "snap_fetch"
    /\ \E l \in Listings :
          /\ list' = l
          /\ listed' = [listed EXCEPT ![snapId] =
                           Some({l[n] : n \in {m \in 1..Len(l) : decode_pool(l[m]) # NoneV}})]
    /\ count' = 0
    /\ runPc' = "snap_iter"
    /\ UNCHANGED <<inventory, published, progIdx, snapId, subsOn, live, liveLeft>>
    /\ UNCHANGED <<subs, attempted>>
    /\ WatchOnly

\* Loop body up to `self.inventory.upsert(info.clone())`; an account that
\* does not decode is skipped.
SnapshotUpsert ==
    /\ runPc = "snap_iter"
    /\ list # <<>>
    /\ IF decode_pool(Head(list)) # NoneV
       THEN /\ inventory' = upsert(inventory, progIdx, Head(list))
            /\ runPc' = "snap_pub"
            /\ UNCHANGED list
       ELSE /\ list' = Tail(list)
            /\ UNCHANGED <<inventory, runPc>>
    /\ UNCHANGED <<published, progIdx, count, snapId, listed, subsOn, live, liveLeft>>
    /\ UNCHANGED <<subs, attempted>>
    /\ WatchOnly

\* `count += 1` per published AccountNew.
CountStep_twice(n) == n + 2

CountStep(n) == n + 1

\* The subscription task of program g has upserted an update it has not
\* published yet, and did so before the snapshot's last upsert.
LiveUpsertedFirst(g) ==
    /\ live[g] # NoneV
    /\ live[g][1].pc = "publish"
    /\ ~live[g][1].behind

\* The snapshot of program g has upserted an account it has not published yet.
SnapshotPending(g) == runPc = "snap_pub" /\ progIdx = g

\* `self.bus.publish(PoolEvent::AccountNew { .. }); count += 1;`
SnapshotPublish ==
    /\ runPc = "snap_pub"
    /\ published' = Append(published,
                           [Ev("AccountNew", progIdx, Head(list), 0, "snap", snapId,
                               Head(list) \in inventory[progIdx])
                              EXCEPT !.overtook = LiveUpsertedFirst(progIdx)])
    /\ live' = [live EXCEPT ![progIdx] =
                  IF live[progIdx] = NoneV THEN NoneV
                  ELSE Some([live[progIdx][1] EXCEPT !.behind = FALSE])]
    /\ count' = CountStep(count)
    /\ list' = Tail(list)
    /\ runPc' = "snap_iter"
    /\ UNCHANGED <<inventory, progIdx, snapId, listed, subsOn, liveLeft>>
    /\ UNCHANGED <<subs, attempted>>
    /\ WatchOnly

\* `Ok(count) => self.bus.publish(PoolEvent::SnapshotFinished { .. })`
SnapshotFinish ==
    /\ runPc = "snap_iter"
    /\ list = <<>>
    /\ published' = Append(published,
                           Ev("SnapshotFinished", progIdx, 0, count, "snap", snapId, FALSE))
    /\ AfterSnapshot
    /\ UNCHANGED <<inventory, list, count, snapId, listed, subsOn, live, liveLeft>>
    /\ UNCHANGED subs
    /\ WatchOnly

\* The subscription tasks are spawned for every program.
SpawnSubscriptions ==
    /\ runPc = "spawn_subs"
    /\ subsOn' = TRUE
    /\ subs' = [g \in Programs |->
                  [subs[g] EXCEPT !.accounts = "running", !.logs = "running",
                                  !.nAccounts = @ + 1, !.nLogs = @ + 1]]
    /\ runPc' = "sleep"
    /\ UNCHANGED <<inventory, published, progIdx, list, count, snapId, listed, live,
                   liveLeft>>
    /\ UNCHANGED attempted
    /\ WatchOnly

\* The sleep ends: ResyncTick, then the snapshots again.
ResyncTick ==
    /\ runPc = "sleep"
    /\ published' = <<Ev("ResyncTick", 0, 0, 0, "run", 0, FALSE)>>
    /\ snapId' = 0
    /\ listed' = <<>>
    /\ progIdx' = 1
    /\ runPc' = "snap_start"
    /\ UNCHANGED <<inventory, list, count, subsOn, live, liveLeft>>
    /\ UNCHANGED <<subs, attempted>>
    /\ WatchOnly

existed_before_byaccount(inv, prog, acc) == acc \in inv[prog]

\* `let existed_before = inventory.count_program(&program.id) > 0;`
existed_before(inv, prog, acc) == count_program(inv, prog) > 0

\* subscribe_program: an update arrives and decodes; it is classified.
LiveReceive(g) ==
    /\ subsOn
    /\ subs[g].accounts = "running"
    /\ liveLeft > 0
    /\ live[g] = NoneV
    /\ liveLeft' = liveLeft - 1
    /\ \E key \in Keys :
          /\ decode_pool(key) # NoneV
          /\ live' = [live EXCEPT ![g] =
                        Some([pc |-> "upsert", account |-> key,
                              existed |-> existed_before(inventory, g, key),
                              known |-> key \in inventory[g],
                              behind |-> FALSE])]
    /\ UNCHANGED <<inventory, published, runPc, progIdx, list, count, snapId, listed,
                   subsOn>>
    /\ UNCHANGED <<subs, attempted>>
    /\ WatchOnly

\* `inventory.upsert(info.clone());`
LiveUpsert(g) ==
    /\ live[g] # NoneV
    /\ live[g][1].pc = "upsert"
    /\ inventory' = upsert(inventory, g, live[g][1].account)
    /\ live' = [live EXCEPT ![g] = Some([live[g][1] EXCEPT !.pc = "publish",
                                                         !.behind = SnapshotPending(g)])]
    /\ UNCHANGED <<published, runPc, progIdx, list, count, snapId, listed, subsOn,
                   liveLeft>>
    /\ UNCHANGED <<subs, attempted>>
    /\ WatchOnly

\* `bus.publish(if existed_before { AccountChanged } else { AccountNew })`
LivePublish(g) ==
    /\ live[g] # NoneV
    /\ live[g][1].pc = "publish"
    /\ published' = Append(published,
                           [Ev(IF live[g][1].existed THEN "AccountChanged" ELSE "AccountNew",
                               g, live[g][1].account, 0, "live", 0, live[g][1].known)
                              EXCEPT !.overtook = live[g][1].behind])
    /\ live' = [live EXCEPT ![g] = NoneV]
    /\ UNCHANGED <<inventory, runPc, progIdx, list, count, snapId, listed, subsOn,
                   liveLeft>>
    /\ UNCHANGED <<subs, attempted>>
    /\ WatchOnly

\* subscribe_logs: `bus.publish(PoolEvent::ProgramLog { .. })` per entry.
LogReceive(g) ==
    /\ subs[g].logs = "running"
    /\ liveLeft > 0
    /\ liveLeft' = liveLeft - 1
    /\ published' = Append(published, Ev("ProgramLog", g, 0, 0, "logs", 0, FALSE))
    /\ UNCHANGED <<inventory, runPc, progIdx, list, count, snapId, listed, subsOn,
                   live, subs, attempted>>
    /\ WatchOnly

\* How a subscription closure returns: `PubsubClient::.._subscribe(..)?`
\* fails (Err), or the `for .. in receiver` loop runs out when the
\* connection is gone (Ok).
EndCauses == {"subscribe_failed", "stream_ended"}

\* `if let Err(e) = subscribe_..(..).await { error!(..) }`: only an Err is
\* logged.
LoggedAtEnd(cause, line) == IF cause = "subscribe_failed" THEN {line} ELSE {}

\* The program-accounts task of program g finishes.  A subscribe call that
\* failed has delivered nothing.
AccountsSubscriptionEnds(g) ==
    /\ subs[g].accounts = "running"
    /\ live[g] = NoneV
    /\ \E cause \in EndCauses :
          /\ cause = "subscribe_failed" => liveLeft = MaxLive
          /\ subs' = [subs EXCEPT
                        ![g].accounts = "ended",
                        ![g].atEnd = inventory[g],
                        ![g].logged = @ \cup LoggedAtEnd(cause, "program subscribe failed")]
    /\ UNCHANGED <<inventory, published, runPc, progIdx, list, count, snapId, listed,
                   subsOn, live, liveLeft, attempted>>
    /\ WatchOnly

\* The logs task of program g finishes.
LogsSubscriptionEnds(g) ==
    /\ subs[g].logs = "running"
    /\ \E cause \in EndCauses :
          /\ cause = "subscribe_failed" => liveLeft = MaxLive
          /\ subs' = [subs EXCEPT
                        ![g].logs = "ended",
                        ![g].logged = @ \cup LoggedAtEnd(cause, "logs subscribe failed")]
    /\ UNCHANGED <<inventory, published, runPc, progIdx, list, count, snapId, listed,
                   subsOn, live, liveLeft, attempted>>
    /\ WatchOnly

-----------------------------------------------------------------------------
(* The resync timer of PoolWatcher::run, in u64 arithmetic.  A u64 is four *)
(* limbs of 16 bits, lowest first.                                         *)

Limb == 2^16

Limbs == 1..4

U64(n) == <<n, 0, 0, 0>>

RECURSIVE LessFrom(_, _, _)
\* a < b on u64, from limb i down.
LessFrom(a, b, i) ==
    IF i = 0 THEN FALSE
    ELSE IF a[i] # b[i] THEN a[i] < b[i]
    ELSE LessFrom(a, b, i - 1)

Less(a, b) == LessFrom(a, b, 4)

\* Ord::max
max(a, b) == IF Less(a, b) THEN b ELSE a

RECURSIVE MulFrom(_, _, _, _)
\* The limbs of x * k from limb i on, with the carry out as a fifth limb.
MulFrom(x, k, i, carry) ==
    IF i > 4 THEN <<carry>>
    ELSE <<(x[i] * k + carry) % Limb>> \o MulFrom(x, k, i + 1, (x[i] * k + carry) \div Limb)

MulWide(x, k) == MulFrom(x, k, 1, 0)

\* u64 `*`: the product modulo 2^64, and whether it overflowed.
wrapping_mul(x, k) == SubSeq(MulWide(x, k), 1, 4)

Overflows(x, k) == MulWide(x, k)[5] # 0

\* Values of the limbs of cfg.periodic_resync_min: 0, below, at and above
\* the floor, the default 30, and the limbs of u64::MAX / 60 and its
\* neighbours.
LimbChoices == {0, 4, 5, 6, 30, 1092, 17476, 17477, Limb - 1}

TimerInit ==
    /\ periodic_resync_min \in [Limbs -> LimbChoices]
    /\ overflow_checks \in BOOLEAN
    /\ mins = NoneV
    /\ wait = NoneV
    /\ timerPc = "clamp"
    /\ resyncTicks = 0

\* PoolWatcherConfig::default(), before run() reaches the timer.
TimerDefault ==
    /\ periodic_resync_min = U64(30)
    /\ overflow_checks = FALSE
    /\ mins = NoneV
    /\ wait = NoneV
    /\ timerPc = "clamp"
    /\ resyncTicks = 0

\* `self.cfg.periodic_resync_min.max(5)`
Clamp(cfg) == max(cfg, U64(5))

\* `let mins = self.cfg.periodic_resync_min.max(5);`
TimerClamp ==
    /\ timerPc = "clamp"
    /\ mins' = Some(Clamp(periodic_resync_min))
    /\ timerPc' = "arm"
    /\ UNCHANGED <<periodic_resync_min, overflow_checks, wait, resyncTicks>>
    /\ TimerOnly

\* `sleep(Duration::from_secs(mins * 60))`: the product panics in a build
\* with overflow checks and wraps in one without.
TimerArm ==
    /\ timerPc = "arm"
    /\ IF Overflows(mins[1], 60) /\ overflow_checks
       THEN /\ timerPc' = "panicked"
            /\ UNCHANGED wait
       ELSE /\ wait' = Some(wrapping_mul(mins[1], 60))
            /\ timerPc' = "sleeping"
    /\ UNCHANGED <<periodic_resync_min, overflow_checks, mins, resyncTicks>>
    /\ TimerOnly

\* The sleep has elapsed: `self.bus.publish(PoolEvent::ResyncTick { .. })`,
\* and, after the snapshots, the loop arms the timer again.
TimerFire ==
    /\ timerPc = "sleeping"
    /\ resyncTicks < MaxResyncTicks
    /\ resyncTicks' = resyncTicks + 1
    /\ timerPc' = "arm"
    /\ UNCHANGED <<periodic_resync_min, overflow_checks, mins, wait>>
    /\ TimerOnly

-----------------------------------------------------------------------------
(* Fetching a mint account: TokenSafetyProvider::get_account_retry, and    *)
(* the fetch at the head of analyze_mint.                                  *)

MAX_RETRIES == 5

InitialDelayMs == 200

\* How an RPC call can fail.
RpcErrors == {"timeout", "node_behind"}

FetchPaths == {"get_account_retry", "analyze_mint"}

\* No fetch is under way.
FetchIdle ==
    /\ fetchPath = "get_account_retry"
    /\ fetchMint = QuoteMint
    /\ attempt = 0
    /\ delay = InitialDelayMs
    /\ calls = 0
    /\ errs = <<>>
    /\ waits = <<>>
    /\ fetchPc = "done"
    /\ fetchResult = NoneV

\* A fetch of some mint begins, in either code path.
FetchInit ==
    /\ fetchPath \in FetchPaths
    /\ fetchMint \in Pools \cup {QuoteMint}
    /\ attempt = 0
    /\ delay = InitialDelayMs
    /\ calls = 0
    /\ errs = <<>>
    /\ waits = <<>>
    /\ fetchPc = "call"
    /\ fetchResult = NoneV

\* `Err(_e) if attempt + 1 < MAX_RETRIES`
RetryAllowed(a) == a + 1 < MAX_RETRIES

\* get_account_retry: one pass of `match self.rpc.get_account(mint)`.
RetryCall ==
    /\ fetchPath = "get_account_retry"
    /\ fetchPc = "call"
    /\ attempt < MAX_RETRIES
    /\ calls' = calls + 1
    /\ \/ /\ fetchResult' = Some("Ok")
          /\ fetchPc' = "done"
          /\ UNCHANGED errs
       \/ \E e \in RpcErrors :
             /\ errs' = Append(errs, e)
             /\ IF RetryAllowed(attempt)
                THEN /\ fetchPc' = "sleep"
                     /\ UNCHANGED fetchResult
                ELSE /\ fetchResult' = Some(<<"Err", e>>)
                     /\ fetchPc' = "done"
    /\ UNCHANGED <<fetchPath, fetchMint, attempt, delay, waits>>
    /\ FetchOnly

\* `thread::sleep(delay); delay *= 2; continue;`
RetrySleep ==
    /\ fetchPath = "get_account_retry"
    /\ fetchPc = "sleep"
    /\ waits' = Append(waits, delay)
    /\ delay' = delay * 2
    /\ attempt' = attempt + 1
    /\ fetchPc' = "call"
    /\ UNCHANGED <<fetchPath, fetchMint, calls, errs, fetchResult>>
    /\ FetchOnly

\* analyze_mint: `let acc = rpc.get_account(mint)?;` on the RpcClient.
AnalyzeFetch ==
    /\ fetchPath = "analyze_mint"
    /\ fetchPc = "call"
    /\ calls' = calls + 1
    /\ \/ /\ fetchResult' = Some("Ok")
          /\ UNCHANGED errs
       \/ \E e \in RpcErrors :
             /\ errs' = Append(errs, e)
             /\ fetchResult' = Some(<<"Err", e>>)
    /\ fetchPc' = "done"
    /\ UNCHANGED <<fetchPath, fetchMint, attempt, delay, waits>>
    /\ FetchOnly

-----------------------------------------------------------------------------
(* Token safety: token_decode::analyze_mint, which the pipeline calls, and *)
(* the inspector's mint_reader::analyze_mint followed by Policy::evaluate. *)
(* decimals and supply are copied through by both and are left out.        *)

MaxExts == 2

\* spl_token_2022 AccountState::Frozen; Initialized is 1.
Frozen == 2

\* One TLV entry of a Token-2022 mint: its extension type, the first byte of
\* a one-byte payload, and the two TransferFee records of a TransferFeeConfig
\* (<<basis points, maximum fee>>, the newer taking effect at `epoch`).
Ext(t, b, o, n, e) == [type |-> t, b |-> b, older |-> o, newer |-> n, epoch |-> e]
Plain(t) == Ext(t, 0, <<0, 0>>, <<0, 0>>, 0)

ExtChoices ==
    { Plain("NonTransferable"), Plain("PermanentDelegate"), Plain("TransferHook"),
      Plain("ConfidentialTransferMint"), Plain("MintCloseAuthority"),
      Plain("InterestBearingConfig"),
      Ext("DefaultAccountState", Frozen, <<0, 0>>, <<0, 0>>, 0),
      Ext("DefaultAccountState", 1, <<0, 0>>, <<0, 0>>, 0),
      Ext("MemoTransfer", 1, <<0, 0>>, <<0, 0>>, 0),
      Ext("MemoTransfer", 0, <<0, 0>>, <<0, 0>>, 0),
      Ext("TransferFeeConfig", 0, <<150, 500>>, <<150, 500>>, 0),
      Ext("TransferFeeConfig", 0, <<50, 500>>, <<50, 500>>, 0),
      Ext("TransferFeeConfig", 0, <<50, 500>>, <<150, 500>>, 1) }

\* The TLV area holds each extension type at most once, in any order.
ExtLists ==
    UNION { { s \in [1..n -> ExtChoices] :
                \A i, j \in 1..n : i < j => s[i].type # s[j].type } :
            n \in 0..MaxExts }

\* Owners that are neither spl_token::id() nor spl_token_2022::id().
ForeignOwners == {"System", "Vote"}

\* TokenProgramKind: TokenV1, Token2022, Other(String).
TokenV1 == <<"TokenV1">>
Token2022 == <<"Token2022">>
Other(owner) == <<"Other", owner>>

\* What Mint::unpack gives on data that unpacks: the modelled mints all
\* have 6 decimals and a supply of 1000.
unpack_mint(a) ==
    IF a.valid THEN Some([decimals |-> 6, supply |-> 1000]) ELSE NoneV

Acct(o, v, m, f, e) ==
    [owner |-> o, valid |-> v, mint_authority |-> m, freeze_authority |-> f,
     exts |-> e]

\* Mint accounts: legacy and Token-2022 mints with or without authorities,
\* accounts whose data does not unpack, and an account of another program.
Accounts ==
    { Acct("TokenV1", TRUE, m, f, <<>>) : m \in BOOLEAN, f \in BOOLEAN }
    \cup { Acct("Token2022", TRUE, mf[1], mf[2], e) :
             mf \in BOOLEAN \X BOOLEAN, e \in ExtLists }
    \cup { Acct(o, FALSE, FALSE, FALSE, <<>>) : o \in {"TokenV1", "Token2022"} }
    \cup { Acct(o, v, FALSE, FALSE, <<>>) : o \in ForeignOwners, v \in BOOLEAN }

DefaultPolicy ==
    [require_freeze_authority_none |-> TRUE,
     forbid_non_transferable |-> TRUE,
     forbid_default_frozen |-> TRUE,
     forbid_permanent_delegate |-> TRUE,
     forbid_transfer_hook |-> TRUE,
     forbid_confidential |-> TRUE,
     forbid_memo_required_if_route_no_memo |-> TRUE,
     max_fee_bps |-> 100,
     max_fee_abs_units |-> NoneV,
     allow_mint_authority |-> FALSE,
     forbid_mint_close_authority |-> FALSE]

PolicySwitches ==
    {"require_freeze_authority_none", "forbid_non_transferable",
     "forbid_default_frozen", "forbid_permanent_delegate", "forbid_transfer_hook",
     "forbid_confidential", "forbid_memo_required_if_route_no_memo",
     "allow_mint_authority", "forbid_mint_close_authority"}

\* The default policy, the default with one switch turned, and the policy
\* that forbids nothing; each with and without an absolute fee cap.
Policies ==
    LET turned == { [DefaultPolicy EXCEPT ![f] = ~@] : f \in PolicySwitches }
        lax == [f \in DOMAIN DefaultPolicy |->
                  IF f \in PolicySwitches
                  THEN f = "allow_mint_authority"
                  ELSE DefaultPolicy[f]]
    IN  { [p EXCEPT !.max_fee_abs_units = c] :
            p \in {DefaultPolicy, lax} \cup turned, c \in {NoneV, Some(400)} }

\* The report analyze_mint starts from (its program is Other(owner) until a
\* branch overwrites it); its flags are TokenExtensionFlags::default().
NewReport ==
    [program |-> Other("System"), decimals |-> 0, supply |-> 0,
     mint_authority_none |-> TRUE,
     freeze_authority_none |-> TRUE,
     flags |-> [non_transferable |-> FALSE, default_frozen |-> FALSE,
                permanent_delegate |-> FALSE, transfer_hook |-> FALSE,
                memo_required |-> FALSE, confidential |-> FALSE,
                mint_close_authority |-> FALSE,
                transfer_fee_bps |-> NoneV, transfer_fee_max |-> NoneV],
     decision_safe |-> TRUE, reasons |-> <<>>, warnings |-> <<>>]

Has(v, s) == \E i \in DOMAIN v : v[i] = s

\* `report.decision_safe = false; report.reasons.push(reason)`
Unsafe_reasononly(r, reason) == [r EXCEPT !.reasons = Append(@, reason)]

Unsafe(r, reason) ==
    [r EXCEPT !.decision_safe = FALSE, !.reasons = Append(@, reason)]

Warn(r, warning) == [r EXCEPT !.warnings = Append(@, warning)]

Flag(r, f) == [r EXCEPT !.flags[f] = TRUE]

\* The two authority checks both token programs' branches make.
AuthorityChecks(r, a, p) ==
    LET r1 == [r EXCEPT !.mint_authority_none = ~a.mint_authority,
                        !.freeze_authority_none = ~a.freeze_authority]
        r2 == IF p.require_freeze_authority_none /\ ~r1.freeze_authority_none
              THEN Unsafe(r1, "freeze_authority")
              ELSE r1
    IN  IF ~p.allow_mint_authority /\ ~r2.mint_authority_none
        THEN Warn(r2, "mint_authority")
        ELSE r2

\* spl_token_2022 TransferFeeConfig::get_epoch_fee
get_epoch_fee(tf, epoch) == IF epoch >= tf.epoch THEN tf.newer ELSE tf.older

MemoForbidden_anyroute(p, route) == p.forbid_memo_required_if_route_no_memo

MemoForbidden(p, route) == p.forbid_memo_required_if_route_no_memo /\ ~route

\* The TransferFeeConfig arm: the fee of epoch 0 is recorded and judged.
TransferFeeArm(r, ext, p) ==
    LET fee == get_epoch_fee(ext, 0)[1]
        maximum_fee == get_epoch_fee(ext, 0)[2]
        r1 == [r EXCEPT !.flags.transfer_fee_bps = Some(fee),
                        !.flags.transfer_fee_max = Some(maximum_fee)]
    IN  IF fee > p.max_fee_bps
        THEN Unsafe(r1, "transfer_fee")
        ELSE IF p.max_fee_abs_units # NoneV /\ maximum_fee > p.max_fee_abs_units[1]
             THEN Unsafe(r1, "transfer_fee")
             ELSE r1

\* One pass of `for ext in exts { match ext { ... } }`.
ExtArm(r, ext, route, p) ==
    CASE ext.type = "NonTransferable" ->
           IF p.forbid_non_transferable
           THEN Unsafe(Flag(r, "non_transferable"), "non_transferable")
           ELSE Flag(r, "non_transferable")
      [] ext.type = "DefaultAccountState" ->
           IF ext.b = Frozen
           THEN IF p.forbid_default_frozen
                THEN Unsafe(Flag(r, "default_frozen"), "default_frozen")
                ELSE Flag(r, "default_frozen")
           ELSE r
      [] ext.type = "PermanentDelegate" ->
           IF p.forbid_permanent_delegate
           THEN Unsafe(Flag(r, "permanent_delegate"), "permanent_delegate")
           ELSE Flag(r, "permanent_delegate")
      [] ext.type = "TransferHook" ->
           IF p.forbid_transfer_hook
           THEN Unsafe(Flag(r, "transfer_hook"), "transfer_hook")
           ELSE Flag(r, "transfer_hook")
      [] ext.type = "MemoTransfer" ->
           IF MemoForbidden(p, route)
           THEN Unsafe(Flag(r, "memo_required"), "memo_required")
           ELSE Flag(r, "memo_required")
      [] ext.type = "ConfidentialTransferMint" ->
           IF p.forbid_confidential
           THEN Unsafe(Flag(r, "confidential"), "confidential")
           ELSE Flag(r, "confidential")
      [] ext.type = "MintCloseAuthority" ->
           IF p.forbid_mint_close_authority
           THEN Unsafe(Flag(r, "mint_close_authority"), "mint_close_authority")
           ELSE Warn(Flag(r, "mint_close_authority"), "mint_close_authority")
      [] ext.type = "TransferFeeConfig" -> TransferFeeArm(r, ext, p)
      [] OTHER -> r

RECURSIVE ExtLoop(_, _, _, _, _)
ExtLoop(r, exts, i, route, p) ==
    IF i > Len(exts)
    THEN r
    ELSE ExtLoop(ExtArm(r, exts[i], route, p), exts, i + 1, route, p)

\* `if report.reasons.is_empty() { report.decision_safe = true; }`
Conclude(r) == IF r.reasons = <<>> THEN [r EXCEPT !.decision_safe = TRUE] ELSE r

\* token_decode::analyze_mint once the account is fetched; [ok |-> FALSE]
\* is the `?` of a failed unpack.
analyze_mint(a, route, p) ==
    IF a.owner = "TokenV1"
    THEN IF a.valid
         THEN [ok |-> TRUE,
               rep |-> Conclude(AuthorityChecks(
                          [NewReport EXCEPT !.program = TokenV1,
                               !.decimals = unpack_mint(a)[1].decimals,
                               !.supply = unpack_mint(a)[1].supply], a, p))]
         ELSE [ok |-> FALSE, rep |-> NewReport]
    ELSE IF a.owner = "Token2022"
    THEN IF a.valid
         THEN [ok |-> TRUE,
               rep |-> Conclude(ExtLoop(
                          AuthorityChecks(
                              [NewReport EXCEPT !.program = Token2022,
                                   !.decimals = unpack_mint(a)[1].decimals,
                                   !.supply = unpack_mint(a)[1].supply], a, p),
                          a.exts, 1, route, p))]
         ELSE [ok |-> FALSE, rep |-> NewReport]
    ELSE [ok |-> TRUE, rep |-> Conclude([NewReport EXCEPT !.program = Other(a.owner)])]

\* The SafetyReport of an unknown owner; its flags are Flags::default().
NewSafety ==
    [program_owner |-> "Other", decimals |-> 0, supply |-> 0,
     flags |-> [mint_authority_none |-> FALSE, freeze_authority_none |-> FALSE,
                non_transferable |-> FALSE, default_frozen |-> FALSE,
                permanent_delegate |-> FALSE, transfer_hook |-> FALSE,
                memo_required |-> FALSE, confidential |-> FALSE,
                mint_close_authority |-> FALSE],
     transfer_fee |-> NoneV, other_extensions |-> <<>>]

\* One pass of analyze_extensions' `match ext_type`.
TlvArm(s, ext) ==
    CASE ext.type = "NonTransferable" -> [s EXCEPT !.flags.non_transferable = TRUE]
      [] ext.type = "DefaultAccountState" ->
           IF ext.b = 2 THEN [s EXCEPT !.flags.default_frozen = TRUE] ELSE s
      [] ext.type = "PermanentDelegate" -> [s EXCEPT !.flags.permanent_delegate = TRUE]
      [] ext.type = "TransferHook" -> [s EXCEPT !.flags.transfer_hook = TRUE]
      [] ext.type = "MemoTransfer" -> [s EXCEPT !.flags.memo_required = (ext.b # 0)]
      [] ext.type = "ConfidentialTransferMint" -> [s EXCEPT !.flags.confidential = TRUE]
      [] ext.type = "MintCloseAuthority" -> [s EXCEPT !.flags.mint_close_authority = TRUE]
      [] ext.type = "TransferFeeConfig" ->
           [s EXCEPT !.transfer_fee = Some([epoch |-> 0, fee_bps |-> 0, max_fee |-> 0])]
      [] OTHER -> [s EXCEPT !.other_extensions = Append(@, ext.type)]

RECURSIVE analyze_extensions(_, _, _)
analyze_extensions(s, exts, i) ==
    IF i > Len(exts)
    THEN s
    ELSE analyze_extensions(TlvArm(s, exts[i]), exts, i + 1)

\* mint_reader::analyze_mint
reader_analyze_mint(a) ==
    IF a.owner = "TokenV1"
    THEN IF a.valid
         THEN [ok |-> TRUE,
               rep |-> [NewSafety EXCEPT
                          !.program_owner = "TokenV1",
                          !.decimals = unpack_mint(a)[1].decimals,
                          !.supply = unpack_mint(a)[1].supply,
                          !.flags.mint_authority_none = ~a.mint_authority,
                          !.flags.freeze_authority_none = ~a.freeze_authority]]
         ELSE [ok |-> FALSE, rep |-> NewSafety]
    ELSE IF a.owner = "Token2022"
    THEN IF a.valid
         THEN [ok |-> TRUE,
               rep |-> [analyze_extensions(NewSafety, a.exts, 1) EXCEPT
                          !.program_owner = "Token2022",
                          !.decimals = unpack_mint(a)[1].decimals,
                          !.supply = unpack_mint(a)[1].supply,
                          !.flags.mint_authority_none = ~a.mint_authority,
                          !.flags.freeze_authority_none = ~a.freeze_authority]]
         ELSE [ok |-> FALSE, rep |-> NewSafety]
    ELSE LET mint == unpack_mint(a)
         IN  [ok |-> TRUE,
              rep |-> [NewSafety EXCEPT
                         !.decimals = IF mint = NoneV THEN 0 ELSE mint[1].decimals,
                         !.supply = IF mint = NoneV THEN 0 ELSE mint[1].supply]]

\* The inspector's Policy holding the same options: its absolute cap is a
\* u64 where 0 stands for no cap.
InspectorPolicy(p) ==
    [require_freeze_authority_none |-> p.require_freeze_authority_none,
     forbid_non_transferable |-> p.forbid_non_transferable,
     forbid_default_frozen |-> p.forbid_default_frozen,
     forbid_permanent_delegate |-> p.forbid_permanent_delegate,
     forbid_transfer_hook |-> p.forbid_transfer_hook,
     forbid_confidential |-> p.forbid_confidential,
     max_fee_bps |-> p.max_fee_bps,
     max_fee_absolute |-> IF p.max_fee_abs_units = NoneV THEN 0
                          ELSE p.max_fee_abs_units[1],
     allow_mint_authority |-> p.allow_mint_authority,
     forbid_memo_required_if_route_has_no_memo |->
         p.forbid_memo_required_if_route_no_memo,
     forbid_mint_close_authority |-> p.forbid_mint_close_authority]

\* Decision::new()
NewDecision == [safe |-> TRUE, reasons |-> <<>>, warnings |-> <<>>]

\* `if c { d.safe = false; d.reasons.push(reason); }`
When_toggle(c, d, reason) ==
    IF c THEN [d EXCEPT !.safe = ~d.safe, !.reasons = Append(@, reason)] ELSE d

When(c, d, reason) ==
    IF c THEN [d EXCEPT !.safe = FALSE, !.reasons = Append(@, reason)] ELSE d

\* Policy::evaluate
evaluate(self, rep, route) ==
    LET f == rep.flags
        d1 == When(~f.freeze_authority_none /\ self.require_freeze_authority_none,
                   NewDecision, "freeze_authority_present")
        d2 == IF ~f.mint_authority_none
              THEN IF self.allow_mint_authority
                   THEN Warn(d1, "mint_authority_present")
                   ELSE When(TRUE, d1, "mint_authority_present")
              ELSE d1
        d3 == When(f.non_transferable /\ self.forbid_non_transferable,
                   d2, "non_transferable")
        d4 == When(f.default_frozen /\ self.forbid_default_frozen,
                   d3, "default_frozen")
        d5 == When(f.permanent_delegate /\ self.forbid_permanent_delegate,
                   d4, "permanent_delegate")
        d6 == When(f.transfer_hook /\ self.forbid_transfer_hook,
                   d5, "transfer_hook")
        d7 == When(f.memo_required /\ self.forbid_memo_required_if_route_has_no_memo
                     /\ ~route,
                   d6, "memo_required")
        d8 == When(f.confidential /\ self.forbid_confidential, d7, "confidential")
        d9 == IF f.mint_close_authority
              THEN IF self.forbid_mint_close_authority
                   THEN When(TRUE, d8, "mint_close_authority")
                   ELSE Warn(d8, "mint_close_authority")
              ELSE d8
    IN  IF rep.transfer_fee = NoneV
        THEN d9
        ELSE LET fee == rep.transfer_fee[1]
                 d10 == When(fee.fee_bps > self.max_fee_bps,
                             d9, "transfer_fee_bps_exceeds_policy")
             IN  When(fee.max_fee > self.max_fee_absolute
                        /\ self.max_fee_absolute > 0,
                      d10, "transfer_fee_max_exceeds_policy")

\* No analysis is under way.
AnaIdle ==
    /\ mintAcc = Acct("System", FALSE, FALSE, FALSE, <<>>)
    /\ policy = DefaultPolicy
    /\ route_supports_memo = TRUE
    /\ report = NewReport
    /\ safety = NewSafety
    /\ decision = NewDecision
    /\ anaPc = "decided"

\* Some account is to be analysed under some policy on some route.
AnaInit ==
    /\ mintAcc \in Accounts
    /\ policy \in Policies
    /\ route_supports_memo \in BOOLEAN
    /\ report = NewReport
    /\ safety = NewSafety
    /\ decision = NewDecision
    /\ anaPc = "idle"

\* The pipeline's analysis: token_decode::analyze_mint.
AnalyzeMint ==
    /\ anaPc = "idle"
    /\ LET res == analyze_mint(mintAcc, route_supports_memo, policy)
       IN  /\ report' = res.rep
           /\ anaPc' = IF res.ok THEN "analyzed" ELSE "failed"
    /\ UNCHANGED <<mintAcc, policy, route_supports_memo, safety, decision>>
    /\ AnaOnly

\* The inspector's analysis: token_safety::analyze_mint.
InspectMint ==
    /\ anaPc = "idle"
    /\ LET res == reader_analyze_mint(mintAcc)
       IN  /\ safety' = res.rep
           /\ anaPc' = IF res.ok THEN "inspected" ELSE "failed"
    /\ UNCHANGED <<mintAcc, policy, route_supports_memo, report, decision>>
    /\ AnaOnly

\* token_safety::is_safe on the inspector's report.
IsSafe ==
    /\ anaPc = "inspected"
    /\ decision' = evaluate(InspectorPolicy(policy), safety, route_supports_memo)
    /\ anaPc' = "decided"
    /\ UNCHANGED <<mintAcc, policy, route_supports_memo, report, safety>>
    /\ AnaOnly

-----------------------------------------------------------------------------
(* Hype aggregator: HypeAggregator::ingest and ::snapshot, classify and    *)
(* score_simple.  f32 values are modelled as exact fractions extended with *)
(* the infinities and NaN; rounding error of f32 arithmetic is left out.   *)

MaxIngest == 3
MaxDedupCalls == 3

HypePools == {1, 2}
Traders == {1}

\* Event and clock timestamps in ms: two in one bucket and one beyond the
\* 300 s horizon.
HypeTimes == {0, 5000, 400000}

\* Log lines as character sequences.
LineSwap == <<"S", "w", "a", "p">>
LineSwap2 == <<"s", "w", "a", "p", " ", "o", "k">>
LineBuy == <<"B", "u", "y", " ", "1">>
LineBuyWord == <<"b", "u", "y">>
LineSell == <<"s", "e", "l", "l", " ", "1">>
LineAdd == <<"a", "d", "d", " ", "l", "i", "q", "u", "i", "d", "i", "t", "y">>
LineRemove ==
    <<"R", "e", "m", "o", "v", "e", " ", "l", "i", "q", "u", "i", "d", "i", "t", "y">>

LogChoices ==
    { <<LineSwap, LineSwap2>>, <<LineSwap2, LineBuy, LineAdd>>,
      <<LineSell, LineRemove>>, <<LineBuyWord>> }

\* str::to_ascii_lowercase on the letters the lines use.
LowerOf(c) ==
    CASE c = "S" -> "s"
      [] c = "B" -> "b"
      [] c = "R" -> "r"
      [] OTHER -> c

to_ascii_lowercase(l) == [i \in DOMAIN l |-> LowerOf(l[i])]

\* str::contains
contains(l, pat) ==
    \E i \in 0..(Len(l) - Len(pat)) :
        \A j \in 1..Len(pat) : l[i + j] = pat[j]

Mentions(logs, pat) ==
    \E k \in DOMAIN logs : contains(to_ascii_lowercase(logs[k]), pat)

\* classify: one flag per kind, however many lines mention it.
classify(logs) ==
    [is_swap |-> Mentions(logs, <<"s", "w", "a", "p">>),
     is_buy |-> Mentions(logs, <<"b", "u", "y", " ">>),
     is_sell |-> Mentions(logs, <<"s", "e", "l", "l", " ">>),
     lp_add |-> \/ Mentions(logs, <<"i", "n", "c", "r", "e", "a", "s", "e", " ",
                                    "l", "i", "q", "u", "i", "d", "i", "t", "y">>)
                \/ Mentions(logs, <<"a", "d", "d", " ",
                                    "l", "i", "q", "u", "i", "d", "i", "t", "y">>),
     lp_rem |-> \/ Mentions(logs, <<"d", "e", "c", "r", "e", "a", "s", "e", " ",
                                    "l", "i", "q", "u", "i", "d", "i", "t", "y">>)
                \/ Mentions(logs, <<"r", "e", "m", "o", "v", "e", " ",
                                    "l", "i", "q", "u", "i", "d", "i", "t", "y">>)]

\* Bucket::default()
NewBucket ==
    [swaps |-> 0, buys |-> 0, sells |-> 0, uniques |-> {}, lp_adds |-> 0,
     lp_rems |-> 0]

\* HypeConfig::default(); bucket_secs is kept as the limbs of its u64.
DefaultHypeConfig == [bucket_secs |-> U64(10), window60s |-> 60, window300s |-> 300]

\* u64::saturating_sub
saturating_sub(a, b) == IF a > b THEN a - b ELSE 0

\* A u64 below 2^31 as a number; event timestamps are all below 2^31.
IsSmall(x) == x[2] < 2^15 /\ x[3] = 0 /\ x[4] = 0
Small(x) == x[1] + x[2] * Limb

\* `self.cfg.bucket_secs * 1000` as the release build computes it.
bucket_ms(c) == wrapping_mul(c.bucket_secs, 1000)

\* The multiplication panics under overflow checks, the division panics on
\* a zero divisor.
IngestPanics(c, checks) ==
    \/ checks /\ Overflows(c.bucket_secs, 1000)
    \/ bucket_ms(c) = U64(0)

\* `ev.ts_ms / (bucket_secs * 1000) * (bucket_secs * 1000)`; a divisor of
\* 2^31 or more gives quotient 0.
bucket_ts_of(c, ts_ms) ==
    IF IsSmall(bucket_ms(c))
    THEN (ts_ms \div Small(bucket_ms(c))) * Small(bucket_ms(c))
    ELSE 0

\* `while let Some((ts, _)) = series.buckets.front() { ... pop_front ... }`
RECURSIVE DropFront(_, _, _)
DropFront(buckets, bucket_ts, horizon_ms) ==
    IF buckets # <<>> /\ saturating_sub(bucket_ts, buckets[1][1]) > horizon_ms
    THEN DropFront(Tail(buckets), bucket_ts, horizon_ms)
    ELSE buckets

\* The counters an event adds to the back bucket.
Count(b, ev) ==
    LET c == classify(ev.logs)
    IN  [swaps |-> b.swaps + (IF c.is_swap THEN 1 ELSE 0),
         buys |-> b.buys + (IF c.is_buy THEN 1 ELSE 0),
         sells |-> b.sells + (IF c.is_sell THEN 1 ELSE 0),
         lp_adds |-> b.lp_adds + (IF c.lp_add THEN 1 ELSE 0),
         lp_rems |-> b.lp_rems + (IF c.lp_rem THEN 1 ELSE 0),
         uniques |-> IF ev.trader = NoneV THEN b.uniques
                     ELSE b.uniques \cup {ev.trader[1]}]

\* ingest on the series of the event's pool.
ingest_series(c, buckets, ev) ==
    LET bucket_ts == bucket_ts_of(c, ev.ts_ms)
        horizon_ms == c.window300s * 1000
        kept == DropFront(buckets, bucket_ts, horizon_ms)
        pushed == IF kept = <<>> \/ kept[Len(kept)][1] # bucket_ts
                  THEN Append(kept, <<bucket_ts, NewBucket>>)
                  ELSE kept
    IN  [pushed EXCEPT ![Len(pushed)] = <<bucket_ts, Count(pushed[Len(pushed)][2], ev)>>]

\* f32 values: a fraction numerator, an infinity (v its sign) or NaN.
Num(v) == [k |-> "num", v |-> v]
NaN == [k |-> "nan", v |-> 0]
Inf(sign) == [k |-> "inf", v |-> sign]

\* weight * n for a finite n >= 0; the weight's unit is 1/1000.
FMul(w, n) ==
    CASE w.k = "nan" -> NaN
      [] w.k = "inf" -> IF n = 0 THEN NaN ELSE w
      [] OTHER -> Num(w.v * n)

FAdd(a, b) ==
    CASE a.k = "nan" \/ b.k = "nan" -> NaN
      [] a.k = "inf" /\ b.k = "inf" -> IF a.v = b.v THEN a ELSE NaN
      [] a.k = "inf" -> a
      [] b.k = "inf" -> b
      [] OTHER -> Num(a.v + b.v)

\* f32::clamp(0.0, 1.0) of x, where `one` is the numerator of 1.0.
Clamp01_identity(x, one) == x

Clamp01(x, one) ==
    CASE x.k = "nan" -> NaN
      [] x.k = "inf" -> IF x.v > 0 THEN Num(one) ELSE Num(0)
      [] OTHER -> Num(IF x.v < 0 THEN 0 ELSE IF x.v > one THEN one ELSE x.v)

ClampInt(x, lo, hi) == IF x < lo THEN lo ELSE IF x > hi THEN hi ELSE x

\* `(x * 100.0).round() as u8`: the cast saturates and sends NaN to 0.
RoundU8(x, one) ==
    CASE x.k = "nan" -> 0
      [] x.k = "inf" -> IF x.v > 0 THEN 255 ELSE 0
      [] OTHER ->
           IF x.v <= 0 THEN 0
           ELSE ClampInt((100 * ClampInt(x.v, 0, 3 * one) + one \div 2) \div one, 0, 255)

\* score_simple; bsr is buys / sells_or_1.  The four normalised terms are
\* numerators over 300 * sells_or_1.
score_simple(w1, w2, w3, w4, swaps, uniq, buys, sells_or_1, lp) ==
    LET d == sells_or_1
        n_swaps == 6 * d * ClampInt(swaps, 0, 50)
        n_unique == 10 * d * ClampInt(uniq, 0, 30)
        n_bsr == 60 * ClampInt(2 * buys - d, 0, 5 * d)
        n_lp == 15 * d * ClampInt(lp, 0, 20)
        one == 1000 * 300 * d
        sum == FAdd(FAdd(FAdd(FMul(w1, n_swaps), FMul(w2, n_unique)),
                         FMul(w3, n_bsr)), FMul(w4, n_lp))
    IN  RoundU8(Clamp01(sum, one), one)

\* The loop of snapshot: buckets newest first, until one is older than 300 s.
RECURSIVE Walk_unwindowed(_, _, _, _)
Walk_unwindowed(buckets, i, now_ms, s) ==
    IF i = 0
    THEN s
    ELSE LET b == buckets[i][2]
         IN  Walk_unwindowed(buckets, i - 1, now_ms,
                 [s EXCEPT !.swaps_60s = @ + b.swaps,
                           !.buys_60s = @ + b.buys,
                           !.sells_60s = @ + b.sells,
                           !.uniq_60s = @ \cup b.uniques,
                           !.lp_net_300s = @ + b.lp_adds - b.lp_rems])

RECURSIVE Walk(_, _, _, _)
Walk(buckets, i, now_ms, s) ==
    IF i = 0
    THEN s
    ELSE LET b == buckets[i][2]
             age == saturating_sub(now_ms, buckets[i][1])
             s1 == IF age <= 60000
                   THEN [s EXCEPT !.swaps_60s = @ + b.swaps,
                                  !.buys_60s = @ + b.buys,
                                  !.sells_60s = @ + b.sells,
                                  !.uniq_60s = @ \cup b.uniques]
                   ELSE s
         IN  IF age <= 300000
             THEN Walk(buckets, i - 1, now_ms,
                       [s1 EXCEPT !.lp_net_300s = @ + b.lp_adds - b.lp_rems])
             ELSE s1

\* HypeSnapshot; buy_sell_ratio is kept as <<buys, sells or 1>>.
snapshot_series(c, buckets, now_ms) ==
    LET s == Walk(buckets, Len(buckets), now_ms,
                  [swaps_60s |-> 0, buys_60s |-> 0, sells_60s |-> 0,
                   uniq_60s |-> {}, lp_net_300s |-> 0])
        d == IF s.sells_60s = 0 THEN 1 ELSE s.sells_60s
    IN  [swaps_60s |-> s.swaps_60s,
         buy_sell_ratio |-> <<s.buys_60s, d>>,
         unique_traders_60s |-> Cardinality(s.uniq_60s),
         lp_net_300s |-> s.lp_net_300s,
         score |-> score_simple(c.w_swaps, c.w_unique, c.w_bsr, c.w_lp,
                                s.swaps_60s, Cardinality(s.uniq_60s),
                                s.buys_60s, d, s.lp_net_300s)]

\* Weights a configuration file or the environment can hold, in 1/1000.
WeightChoices ==
    { <<Num(350), Num(350), Num(200), Num(100)>>,
      <<Num(5000), Num(5000), Num(5000), Num(5000)>>,
      <<Num(0 - 1000), Num(0 - 1000), Num(0 - 1000), Num(0 - 1000)>>,
      <<NaN, Num(350), Num(200), Num(100)>>,
      <<Inf(1), Inf(0 - 1), Num(200), Num(100)>> }

HypeConfigOf(w) ==
    [bucket_secs |-> DefaultHypeConfig.bucket_secs,
     window60s |-> DefaultHypeConfig.window60s,
     window300s |-> DefaultHypeConfig.window300s,
     w_swaps |-> w[1], w_unique |-> w[2], w_bsr |-> w[3], w_lp |-> w[4]]

\* Every kind of event on the first pool, one swap event on the second.
HypeEvents ==
    [pool : {1}, ts_ms : HypeTimes, logs : LogChoices,
     trader : {NoneV} \cup {Some(t) : t \in Traders}]
    \cup {[pool |-> 2, ts_ms |-> 0, logs |-> <<LineSwap>>, trader |-> NoneV]}

\* The aggregator is not in use.
HypeIdle ==
    /\ hypeCfg = HypeConfigOf(<<Num(350), Num(350), Num(200), Num(100)>>)
    /\ map = <<>>
    /\ ingested = <<>>
    /\ hypeSnap = NoneV
    /\ snapPool = 1
    /\ snapNow = 0
    /\ hypePc = "snapped"

\* HypeAggregator::new
HypeInit ==
    /\ \E w \in WeightChoices : hypeCfg = HypeConfigOf(w)
    /\ map = <<>>
    /\ ingested = <<>>
    /\ hypeSnap = NoneV
    /\ snapPool = 1
    /\ snapNow = 0
    /\ hypePc = "ingest"

\* `map.entry(ev.pool).or_default()`
SeriesOf(m, pool) == IF pool \in DOMAIN m THEN m[pool] ELSE <<>>

Ingest ==
    /\ hypePc = "ingest"
    /\ Len(ingested) < MaxIngest
    /\ \E ev \in HypeEvents :
          IF IngestPanics(hypeCfg, overflow_checks)
          THEN /\ map' = [p \in DOMAIN map \cup {ev.pool} |-> SeriesOf(map, p)]
               /\ hypePc' = "panicked"
               /\ UNCHANGED ingested
          ELSE /\ map' = [p \in DOMAIN map \cup {ev.pool} |->
                            IF p = ev.pool
                            THEN ingest_series(hypeCfg, SeriesOf(map, p), ev)
                            ELSE map[p]]
               /\ ingested' = Append(ingested, <<ev.pool, ev.ts_ms>>)
               /\ UNCHANGED hypePc
    /\ UNCHANGED <<hypeCfg, hypeSnap, snapPool, snapNow>>
    /\ HypeOnly

\* snapshot(pool) at clock reading now_ms; `map.get(pool)?` gives None.
Snapshot ==
    /\ hypePc = "ingest"
    /\ \E pool \in HypePools, now_ms \in HypeTimes :
          /\ snapPool' = pool
          /\ snapNow' = now_ms
          /\ hypeSnap' = IF pool \in DOMAIN map
                     THEN Some(snapshot_series(hypeCfg, map[pool], now_ms))
                     ELSE NoneV
    /\ hypePc' = "snapped"
    /\ UNCHANGED <<hypeCfg, map, ingested>>
    /\ HypeOnly

-----------------------------------------------------------------------------
(* Pool decoders: orca_whirl::try_decode, raydium_clmm::try_decode and     *)
(* decode_pool on raw account bytes.  A Pubkey is its 32-byte array.       *)

Key(k) == [i \in 1..32 |-> k]

DexKinds == {"OrcaWhirlpools", "RaydiumClmm", "RaydiumCpmm"}

\* Bytes b written from offset off (0-based).
At(off, b) == [i \in off..(off + Len(b) - 1) |-> b[i - off + 1]]

\* A zeroed buffer of len bytes with the bytes of `patch` written into it.
Blob(len, patch) ==
    [i \in 1..len |-> IF (i - 1) \in DOMAIN patch THEN patch[i - 1] ELSE 0]

\* An Orca pool; Raydium bytes with a trade fee of 300 at offset 47, which
\* read as a config at 117 bytes and as a pool of config account Key(1) at
\* more than 237; and a buffer of 0xff bytes.
Patches ==
    { At(9, <<3, 0>>) @@ At(13, <<5, 0>>) @@ At(69, Key(3)) @@ At(149, Key(4)),
      At(9, Key(1)) @@ At(47, <<44, 1, 0, 0>>) @@ At(73, Key(3))
          @@ At(105, Key(4)) @@ At(235, <<9, 0>>),
      At(0, [i \in 1..240 |-> 255]) }

DataLens == {0, 117, 180, 181, 200, 237, 238}

Datas == { Blob(n, p) : n \in DataLens, p \in Patches }

\* `data.get(a..b)`: None when the range leaves the slice.
get(data, a, b) == IF b <= Len(data) THEN Some(SubSeq(data, a + 1, b)) ELSE NoneV

u16_from_le_bytes_be(b) == b[2] + 256 * b[1]

u16_from_le_bytes(b) == b[1] + 256 * b[2]

PoolInfo(dex, program, account, base, quote, fee, tick) ==
    [dex |-> dex, id |-> [program |-> program, account |-> account],
     base_mint |-> base, quote_mint |-> quote, fee_bps |-> fee,
     tick_spacing |-> tick, lp_mint |-> NoneV,
     is_token2022_base |-> FALSE, is_token2022_quote |-> FALSE]

\* orca_whirl::try_decode
orca_try_decode(program, account, data) ==
    LET TOKEN_A_OFFSET == 69
        TOKEN_B_OFFSET == 149
        TICK_SPACING_OFFSET == 9
        FEE_RATE_OFFSET == 13
        token_a == get(data, TOKEN_A_OFFSET, TOKEN_A_OFFSET + 32)
        token_b == get(data, TOKEN_B_OFFSET, TOKEN_B_OFFSET + 32)
        tick_spacing == get(data, TICK_SPACING_OFFSET, TICK_SPACING_OFFSET + 2)
        fee_bps == get(data, FEE_RATE_OFFSET, FEE_RATE_OFFSET + 2)
    IN  IF Len(data) < 181 THEN NoneV
        ELSE IF NoneV \in {token_a, token_b, tick_spacing, fee_bps} THEN NoneV
        ELSE Some(PoolInfo("OrcaWhirlpools", program, account,
                           Some(token_a[1]), Some(token_b[1]),
                           Some(u16_from_le_bytes(fee_bps[1])),
                           Some(u16_from_le_bytes(tick_spacing[1]))))

\* `((fee as u64 * 10_000) / 1_000_000) as u16` for fee = u32::from_le_bytes(b).
\* The u64 product cannot overflow (fee < 2^32), so the quotient is fee / 100;
\* it is taken by long division on the 16-bit halves, and the cast keeps its
\* low 16 bits.
ConfigFeeBps(b) ==
    LET lo == b[1] + 256 * b[2]
        hi == b[3] + 256 * b[4]
        q_lo == ((hi % 100) * 65536 + lo) \div 100
    IN  q_lo % 65536

\* `CONFIG_FEES.get(&amm_config).map(|v| *v)`
ConfigLookup_none(table, k) == NoneV

ConfigLookup(table, k) == IF k \in DOMAIN table THEN Some(table[k]) ELSE NoneV

\* DashMap::insert
ConfigInsert(table, k, v) ==
    [x \in DOMAIN table \cup {k} |-> IF x = k THEN v ELSE table[x]]

\* raydium_clmm::try_decode: the PoolInfo returned and the table afterwards.
raydium_try_decode(table, program, account, data) ==
    LET CONFIG_LEN == 117
        TRADE_FEE_OFFSET == 47
        AMM_CONFIG_OFFSET == 9
        TOKEN_BASE_OFFSET == 73
        TOKEN_QUOTE_OFFSET == 105
        TICK_SPACING_OFFSET == 235
        fee == get(data, TRADE_FEE_OFFSET, TRADE_FEE_OFFSET + 4)
        amm_config == get(data, AMM_CONFIG_OFFSET, AMM_CONFIG_OFFSET + 32)
        token_base == get(data, TOKEN_BASE_OFFSET, TOKEN_BASE_OFFSET + 32)
        token_quote == get(data, TOKEN_QUOTE_OFFSET, TOKEN_QUOTE_OFFSET + 32)
        tick_spacing == get(data, TICK_SPACING_OFFSET, TICK_SPACING_OFFSET + 2)
    IN  IF Len(data) = CONFIG_LEN
        THEN IF fee = NoneV
             THEN [info |-> NoneV, table |-> table]
             ELSE [info |-> NoneV,
                   table |-> ConfigInsert(table, account, ConfigFeeBps(fee[1]))]
        ELSE IF Len(data) <= TICK_SPACING_OFFSET + 2
        THEN [info |-> NoneV, table |-> table]
        ELSE IF NoneV \in {amm_config, token_base, token_quote, tick_spacing}
        THEN [info |-> NoneV, table |-> table]
        ELSE [info |-> Some(PoolInfo("RaydiumClmm", program, account,
                                     Some(token_base[1]), Some(token_quote[1]),
                                     ConfigLookup(table, amm_config[1]),
                                     Some(u16_from_le_bytes(tick_spacing[1])))),
              table |-> table]

\* TokenIntrospectionProvider: the mints it knows as Token-2022, and
\* whether its calls fail.
Providers ==
    { [token2022 |-> {Key(3)}, fails |-> FALSE],
      [token2022 |-> {Key(3)}, fails |-> TRUE] }

\* `info.<mint>.map(|m| token.is_token2022(&m).unwrap_or(false)).unwrap_or(false)`
IsToken2022(token, mint) ==
    IF mint = NoneV THEN FALSE
    ELSE IF token.fails THEN FALSE
    ELSE mint[1] \in token.token2022

\* `info.dex = kind`
WithKind_asdecoded(info, kind) == info

WithKind(info, kind) == [info EXCEPT !.dex = kind]

\* decoders::decode_pool on raw bytes.
decode_pool_bytes(table, kind, program, account, data, token) ==
    LET r == IF kind = "OrcaWhirlpools"
             THEN [info |-> orca_try_decode(program, account, data), table |-> table]
             ELSE raydium_try_decode(table, program, account, data)
    IN  IF r.info = NoneV
        THEN r
        ELSE [info |-> Some([WithKind(r.info[1], kind) EXCEPT
                               !.is_token2022_base =
                                   IsToken2022(token, r.info[1].base_mint),
                               !.is_token2022_quote =
                                   IsToken2022(token, r.info[1].quote_mint)]),
              table |-> r.table]

NoCall ==
    [via |-> "decode_pool", kind |-> "OrcaWhirlpools", account |-> Key(1),
     data |-> <<>>]

DecInit ==
    /\ CONFIG_FEES = <<>>
    /\ decIn = NoCall
    /\ decoded = NoneV
    /\ feeless = NoneV

\* The first Raydium pool input that came back without a fee is remembered.
Feeless(call, info) ==
    IF feeless = NoneV /\ info # NoneV /\ info[1].fee_bps = NoneV
    THEN Some(<<call.account, call.data>>)
    ELSE feeless

\* A direct call of orca_whirl::try_decode.
DecodeOrca ==
    /\ \E account \in {Key(1)}, data \in Datas :
          /\ decIn' = [via |-> "orca_whirl", kind |-> "OrcaWhirlpools",
                       account |-> account, data |-> data]
          /\ decoded' = orca_try_decode(Key(ProgramId), account, data)
    /\ UNCHANGED <<CONFIG_FEES, feeless>>
    /\ DecOnly

\* A direct call of raydium_clmm::try_decode.
DecodeRaydium ==
    /\ \E account \in {Key(1), Key(2)}, data \in Datas :
          LET r == raydium_try_decode(CONFIG_FEES, Key(ProgramId), account, data)
              call == [via |-> "raydium_clmm", kind |-> "RaydiumClmm",
                       account |-> account, data |-> data]
          IN  /\ decIn' = call
              /\ decoded' = r.info
              /\ CONFIG_FEES' = r.table
              /\ feeless' = Feeless(call, r.info)
    /\ DecOnly

\* decode_pool, as the snapshot and the subscription call it.
DecodePool ==
    /\ \E kind \in DexKinds, account \in {Key(1)}, data \in Datas,
          token \in Providers :
          LET r == decode_pool_bytes(CONFIG_FEES, kind, Key(ProgramId), account,
                                     data, token)
              call == [via |-> "decode_pool", kind |-> kind,
                       account |-> account, data |-> data]
          IN  /\ decIn' = call
              /\ decoded' = r.info
              /\ CONFIG_FEES' = r.table
              /\ feeless' = IF kind = "OrcaWhirlpools" THEN feeless
                            ELSE Feeless(call, r.info)
    /\ DecOnly

-----------------------------------------------------------------------------
(* The dedup decision: should_process and the in-line check of the         *)
(* pipeline loop, for any clock reading (current_ms is the wall clock,     *)
(* which can step back).                                                   *)

DedupKeys == {1, 2}

DedupTimes == {0, 500, 2000, ttl}

\* The ttl argument: the one of test_dedup_recent and the pipeline's.
DedupTtls == {1000, ttl}

\* u64 `now - ts < ttl`.  With now < ts the difference overflows: a build
\* with overflow checks panics, one without wraps to 2^64 - (ts - now),
\* which is above every ttl here (ts - now and ttl are below 2^31).
SubLt(t, ts, ttlv, checks) ==
    IF t < ts
    THEN IF checks THEN "panic" ELSE "ge"
    ELSE IF t - ts < ttlv THEN "lt" ELSE "ge"

\* should_process(cache, key, now, ttl)
should_process_ttl(cache, key, t, ttlv, checks) ==
    LET c1 == LruGet(cache, key)
        cmp == IF LruHas(cache, key)
               THEN SubLt(t, LruValue(cache, key), ttlv, checks)
               ELSE "ge"
    IN  IF cmp = "panic" THEN [outcome |-> "panic", cache |-> c1]
        ELSE IF cmp = "lt" THEN [outcome |-> "reject", cache |-> c1]
        ELSE [outcome |-> "accept", cache |-> LruPut(c1, key, t, SeenCap)]

\* The check in spawn_pool_pipeline's loop: `process` starts true, is
\* cleared by a recent timestamp, and guards the put.
inline_check(cache, key, t, checks) ==
    LET c1 == LruGet(cache, key)
        cmp == IF LruHas(cache, key)
               THEN SubLt(t, LruValue(cache, key), ttl, checks)
               ELSE "none"
        process == cmp \notin {"lt", "panic"}
    IN  IF cmp = "panic" THEN [outcome |-> "panic", cache |-> c1]
        ELSE [outcome |-> IF process THEN "accept" ELSE "reject",
              cache |-> IF process THEN LruPut(c1, key, t, SeenCap) ELSE c1]

NoDedupCall ==
    [via |-> "none", key |-> 0, now |-> 0, ttl |-> 0, before |-> <<>>,
     outcome |-> "none"]

DedIdle ==
    /\ dedChecks = FALSE
    /\ dedCache = <<>>
    /\ dedCall = NoDedupCall
    /\ dedLog = <<>>

DedInit ==
    /\ dedChecks \in BOOLEAN
    /\ dedCache = <<>>
    /\ dedCall = NoDedupCall
    /\ dedLog = <<>>

\* A panic unwinds the caller: no call follows it.
DedupLive == dedCall.outcome # "panic" /\ Len(dedLog) < MaxDedupCalls

\* A call of should_process.
DedupCall ==
    /\ DedupLive
    /\ \E key \in DedupKeys, t \in DedupTimes, ttlv \in DedupTtls :
          LET r == should_process_ttl(dedCache, key, t, ttlv, dedChecks)
          IN  /\ dedCache' = r.cache
              /\ dedCall' = [via |-> "should_process", key |-> key, now |-> t,
                             ttl |-> ttlv, before |-> dedCache,
                             outcome |-> r.outcome]
              /\ dedLog' = Append(dedLog, <<key, t, ttlv, r.outcome>>)
    /\ UNCHANGED dedChecks
    /\ DedOnly

\* One pass of the pipeline loop over an account event of pool `key`.
DedupInline ==
    /\ DedupLive
    /\ \E key \in DedupKeys, t \in DedupTimes :
          LET r == inline_check(dedCache, key, t, dedChecks)
          IN  /\ dedCache' = r.cache
              /\ dedCall' = [via |-> "inline", key |-> key, now |-> t,
                             ttl |-> ttl, before |-> dedCache,
                             outcome |-> r.outcome]
              /\ dedLog' = Append(dedLog, <<key, t, ttl, r.outcome>>)
    /\ UNCHANGED dedChecks
    /\ DedOnly

-----------------------------------------------------------------------------
(* The two tokio Mutexes of arb-notify: `seen` (dedup LRU), taken by the   *)
(* pipeline loop, and `mint_cache`, taken by the two futures of every      *)
(* handle_pool_event task.  A tokio Mutex is not reentrant: lock().await   *)
(* completes only while nobody holds the guard.                            *)

MaxLockEvents == 2

LockTasks == 1..MaxLockEvents
Sides == {"A", "B"}
OtherSide(side) == IF side = "A" THEN "B" ELSE "A"

\* The mints of the events: mint_b is the quote mint, mint_a any mint,
\* the quote mint included (mint_a = mint_b).
LockMintsA == {1, QuoteMint}

IdleTask == [st |-> "idle", pool |-> 0, mint_a |-> 0, mint_b |-> 0,
             futA |-> "lock1", futB |-> "lock1"]

NoEvent == [pool |-> 0, mint_a |-> 0, mint_b |-> 0]

LockIdle ==
    /\ seenLock = "free"
    /\ mintLock = NoneV
    /\ loop = [pc |-> "recv", ev |-> NoEvent]
    /\ lkSeen = <<>>
    /\ lkCache = <<>>
    /\ tasks = [h \in LockTasks |-> IdleTask]
    /\ lkCount = 0

TaskFut(h, side) == IF side = "A" THEN tasks[h].futA ELSE tasks[h].futB

TaskMint(h, side) == IF side = "A" THEN tasks[h].mint_a ELSE tasks[h].mint_b

SetTaskFut(h, side, v) ==
    IF side = "A" THEN [tasks EXCEPT ![h].futA = v]
                  ELSE [tasks EXCEPT ![h].futB = v]

\* `drop(cache)` after a miss: the guard goes, the Mutex is free again.
drop_forgotten(guard) == guard

drop(guard) == NoneV

\* rx.recv() gives an account event with both mints.
LoopRecv ==
    /\ loop.pc = "recv"
    /\ lkCount < MaxLockEvents
    /\ \E p \in Pools, ma \in LockMintsA :
          loop' = [pc |-> "lock", ev |-> [pool |-> p, mint_a |-> ma, mint_b |-> QuoteMint]]
    /\ lkCount' = lkCount + 1
    /\ UNCHANGED <<seenLock, mintLock, lkSeen, lkCache, tasks>>
    /\ LockOnly

\* `let mut seen_lock = seen.lock().await;`
LoopLock ==
    /\ loop.pc = "lock"
    /\ seenLock = "free"
    /\ seenLock' = "pipeline"
    /\ loop' = [loop EXCEPT !.pc = "locked"]
    /\ UNCHANGED <<mintLock, lkSeen, lkCache, tasks, lkCount>>
    /\ LockOnly

\* The check-then-insert under the guard, `drop(seen_lock)`, then
\* `if !process { continue; }`.
LoopDedup ==
    /\ loop.pc = "locked"
    /\ LET r == should_process(lkSeen, loop.ev.pool, now)
       IN /\ lkSeen' = r.cache
          /\ loop' = IF r.process THEN [loop EXCEPT !.pc = "spawn"]
                     ELSE [pc |-> "recv", ev |-> NoEvent]
    /\ seenLock' = "free"
    /\ UNCHANGED <<mintLock, lkCache, tasks, lkCount>>
    /\ LockOnly

\* `tokio::spawn(async move { handle_pool_event(..).await })`
LoopSpawn ==
    /\ loop.pc = "spawn"
    /\ \E h \in LockTasks :
          /\ tasks[h].st = "idle"
          /\ \A g \in 1..(h - 1) : tasks[g].st # "idle"
          /\ tasks' = [tasks EXCEPT ![h] = [IdleTask EXCEPT !.st = "join",
                                               !.pool = loop.ev.pool,
                                               !.mint_a = loop.ev.mint_a,
                                               !.mint_b = loop.ev.mint_b]]
    /\ loop' = [pc |-> "recv", ev |-> NoEvent]
    /\ UNCHANGED <<seenLock, mintLock, lkSeen, lkCache, lkCount>>
    /\ LockOnly

\* `let mut cache = cache_a.lock().await;` (before the lookup and before
\* the store).
FutLock(h, side) ==
    /\ tasks[h].st = "join"
    /\ TaskFut(h, side) \in {"lock1", "lock2"}
    /\ mintLock = NoneV
    /\ mintLock' = Some(<<h, side>>)
    /\ tasks' = SetTaskFut(h, side, IF TaskFut(h, side) = "lock1" THEN "locked1"
                                    ELSE "locked2")
    /\ UNCHANGED <<seenLock, loop, lkSeen, lkCache, lkCount>>
    /\ LockOnly

\* `if let Some(r) = cache.get(&mint).cloned() { return Ok(r); } drop(cache);`
FutLookup(h, side) ==
    /\ tasks[h].st = "join"
    /\ TaskFut(h, side) = "locked1"
    /\ IF LruHas(lkCache, TaskMint(h, side))
       THEN /\ lkCache' = LruGet(lkCache, TaskMint(h, side))
            /\ tasks' = SetTaskFut(h, side, "ok")
            /\ mintLock' = NoneV
       ELSE /\ UNCHANGED lkCache
            /\ tasks' = SetTaskFut(h, side, "rpc")
            /\ mintLock' = drop(mintLock)
    /\ UNCHANGED <<seenLock, loop, lkSeen, lkCount>>
    /\ LockOnly

\* `analyze_mint(..).await?`: an Err ends try_join!, which drops the other
\* future where it stands, a guard it holds included.
FutRpc(h, side) ==
    /\ tasks[h].st = "join"
    /\ TaskFut(h, side) = "rpc"
    /\ \E analysis_ok \in BOOLEAN :
          IF analysis_ok
          THEN /\ tasks' = SetTaskFut(h, side, "lock2")
               /\ UNCHANGED mintLock
          ELSE /\ tasks' = [tasks EXCEPT ![h].st = "failed"]
               /\ mintLock' = IF mintLock # NoneV /\ mintLock[1][1] = h
                              THEN NoneV ELSE mintLock
    /\ UNCHANGED <<seenLock, loop, lkSeen, lkCache, lkCount>>
    /\ LockOnly

\* `cache.put(mint, r.clone()); Ok(r)`: the guard goes at the end of the block.
FutStore(h, side) ==
    /\ tasks[h].st = "join"
    /\ TaskFut(h, side) = "locked2"
    /\ lkCache' = LruPut(lkCache, TaskMint(h, side), "report", MintCap)
    /\ tasks' = SetTaskFut(h, side, "ok")
    /\ mintLock' = NoneV
    /\ UNCHANGED <<seenLock, loop, lkSeen, lkCount>>
    /\ LockOnly

\* try_join! returns once both futures are Ok; the rest of the handler
\* takes neither lock.
TaskJoined(h) ==
    /\ tasks[h].st = "join"
    /\ tasks[h].futA = "ok"
    /\ tasks[h].futB = "ok"
    /\ tasks' = [tasks EXCEPT ![h].st = "done"]
    /\ UNCHANGED <<seenLock, mintLock, loop, lkSeen, lkCache, lkCount>>
    /\ LockOnly

\* Every step of the loop and of the tasks on an event already received.
LockStep ==
    \/ LoopLock
    \/ LoopDedup
    \/ LoopSpawn
    \/ \E h \in LockTasks, side \in Sides : FutLock(h, side)
    \/ \E h \in LockTasks, side \in Sides : FutLookup(h, side)
    \/ \E h \in LockTasks, side \in Sides : FutRpc(h, side)
    \/ \E h \in LockTasks, side \in Sides : FutStore(h, side)
    \/ \E h \in LockTasks : TaskJoined(h)

-----------------------------------------------------------------------------
(* Specifications.                                                         *)

\* Bus, consumers and dedup.
Init ==
    /\ PipeInit
    /\ SinkInit
    /\ rotate = TRUE
    /\ WatchInit
    /\ TimerDefault
    /\ FetchIdle
    /\ AnaIdle
    /\ HypeIdle
    /\ DecInit
    /\ DedIdle
    /\ LockIdle

Next ==
    \/ ClockAdvance
    \/ WatcherPublish
    \/ IngestorLagged
    \/ IngestorRecv
    \/ PipelineLagged
    \/ PipelineRecv

Spec == Init /\ [][Next]_vars

\* The detached enrichment handlers.
HandlerInit == Init

HandlerNext ==
    \/ PipelineAccepts
    \/ IngestorIngests
    \/ \E h \in HandlerIds, side \in {"A", "B"} : FutCheck(h, side)
    \/ \E h \in HandlerIds, side \in {"A", "B"} : FutAnalyze(h, side)
    \/ \E h \in HandlerIds : HandlerLiq(h)
    \/ \E h \in HandlerIds : HandlerSnapshot(h)
    \/ \E h \in HandlerIds : HandlerSink(h)
    \/ \E h \in HandlerIds : HandlerSend(h)
    \/ \E h \in HandlerIds : HandlerErrSink(h)

SpecHandler == HandlerInit /\ [][HandlerNext]_vars

\* A handler has returned.
Returned(h) == handlers[h].hpc \in {"done", "failed"}

\* The handlers run one at a time: the next event is accepted only when
\* every handler spawned so far has returned.
HandlerSeqNext ==
    \/ (PipelineAccepts /\ \A h \in HandlerIds : Spawned(h) => Returned(h))
    \/ IngestorIngests
    \/ \E h \in HandlerIds, side \in {"A", "B"} : FutCheck(h, side)
    \/ \E h \in HandlerIds, side \in {"A", "B"} : FutAnalyze(h, side)
    \/ \E h \in HandlerIds : HandlerLiq(h)
    \/ \E h \in HandlerIds : HandlerSnapshot(h)
    \/ \E h \in HandlerIds : HandlerSink(h)
    \/ \E h \in HandlerIds : HandlerSend(h)
    \/ \E h \in HandlerIds : HandlerErrSink(h)

SpecHandlerSeq == HandlerInit /\ [][HandlerSeqNext]_vars

\* The pipeline loop with its dedup step and the handlers it detaches, each
\* followed up to the join of its two analyses (what a handler does after
\* the join is the subject of SpecHandler).
PipelineNext ==
    \/ ClockAdvance
    \/ WatcherPublish
    \/ PipelineLagged
    \/ PipelineRecv
    \/ \E h \in HandlerIds, side \in {"A", "B"} : FutCheck(h, side)
    \/ \E h \in HandlerIds, side \in {"A", "B"} : FutAnalyze(h, side)

SpecPipeline == Init /\ [][PipelineNext]_vars

\* The file sink and its writer.
SinkSpecInit ==
    /\ PipeInit
    /\ SinkInit
    /\ WatchInit
    /\ TimerDefault
    /\ FetchIdle
    /\ AnaIdle
    /\ HypeIdle
    /\ DecInit
    /\ DedIdle
    /\ LockIdle

SinkNext ==
    \/ SinkWrite
    \/ SinkClone
    \/ SinkDrop
    \/ TickDue
    \/ DayRolls
    \/ WriterRecv
    \/ WriterTick

SpecSink == SinkSpecInit /\ [][SinkNext]_vars

\* The pool watcher.
WatchNext ==
    \/ SnapshotStart
    \/ SnapshotFetchFails
    \/ SnapshotFetch
    \/ SnapshotUpsert
    \/ SnapshotPublish
    \/ SnapshotFinish
    \/ SpawnSubscriptions
    \/ ResyncTick
    \/ \E g \in Programs : LiveReceive(g)
    \/ \E g \in Programs : LiveUpsert(g)
    \/ \E g \in Programs : LivePublish(g)

SpecWatch == Init /\ [][WatchNext]_vars

\* The steps of PoolWatcher::run itself: the sleep elapses, an RPC call
\* returns (with a listing or an error), a publish or upsert completes.
RunStep ==
    \/ SnapshotStart
    \/ SnapshotFetchFails
    \/ SnapshotFetch
    \/ SnapshotUpsert
    \/ SnapshotPublish
    \/ SnapshotFinish
    \/ SpawnSubscriptions
    \/ ResyncTick

\* The pool watcher with its run loop scheduled fairly.
SpecWatchFair == SpecWatch /\ WF_vars(RunStep)

\* The pool watcher with both subscriptions of every program delivering.
WatchLogsNext ==
    \/ WatchNext
    \/ \E g \in Programs : LogReceive(g)

SpecWatchLogs == Init /\ [][WatchLogsNext]_vars

\* The run loop of a watcher whose subscriptions deliver nothing and may
\* end at any time.
WatchEndsNext ==
    \/ RunStep
    \/ \E g \in Programs : AccountsSubscriptionEnds(g)
    \/ \E g \in Programs : LogsSubscriptionEnds(g)

SpecWatchEnds == Init /\ [][WatchEndsNext]_vars /\ WF_vars(RunStep)

\* The resync timer, for every configured period and both build profiles.
TimerSpecInit ==
    /\ PipeInit
    /\ SinkInit
    /\ rotate = TRUE
    /\ WatchInit
    /\ TimerInit
    /\ FetchIdle
    /\ AnaIdle
    /\ HypeIdle
    /\ DecInit
    /\ DedIdle
    /\ LockIdle

TimerNext ==
    \/ TimerClamp
    \/ TimerArm
    \/ TimerFire

SpecTimer == TimerSpecInit /\ [][TimerNext]_vars

\* Fetches of a mint account, over every sequence of RPC outcomes.
FetchSpecInit ==
    /\ PipeInit
    /\ SinkInit
    /\ rotate = TRUE
    /\ WatchInit
    /\ TimerDefault
    /\ FetchInit
    /\ AnaIdle
    /\ HypeIdle
    /\ DecInit
    /\ DedIdle
    /\ LockIdle

FetchNext ==
    \/ RetryCall
    \/ RetrySleep
    \/ AnalyzeFetch

SpecFetch == FetchSpecInit /\ [][FetchNext]_vars

\* Analyses of a mint account, over accounts, policies and routes.
AnaSpecInit ==
    /\ PipeInit
    /\ SinkInit
    /\ rotate = TRUE
    /\ WatchInit
    /\ TimerDefault
    /\ FetchIdle
    /\ AnaInit
    /\ HypeIdle
    /\ DecInit
    /\ DedIdle
    /\ LockIdle

AnaNext ==
    \/ AnalyzeMint
    \/ InspectMint
    \/ IsSafe

SpecAnalyze == AnaSpecInit /\ [][AnaNext]_vars

\* The hype aggregator, over event sequences and weights.
HypeSpecInit ==
    /\ PipeInit
    /\ SinkInit
    /\ rotate = TRUE
    /\ WatchInit
    /\ TimerDefault
    /\ FetchIdle
    /\ AnaIdle
    /\ HypeInit
    /\ DecInit
    /\ DedIdle
    /\ LockIdle

HypeNext ==
    \/ Ingest
    \/ Snapshot

SpecHype == HypeSpecInit /\ [][HypeNext]_vars

\* bucket_secs as a configuration file can set it: the default, one second,
\* the whole window, more than the window, the least value whose product
\* with 1000 exceeds u64::MAX, and 2^61 (product 0 modulo 2^64).
BucketChoices ==
    { U64(10), U64(1), U64(300), U64(400),
      <<42992, 19398, 35127, 65>>, <<0, 0, 0, 2^13>> }

\* Ingests under every such bucket width, in both build profiles.
HypeMemInit ==
    /\ PipeInit
    /\ SinkInit
    /\ rotate = TRUE
    /\ WatchInit
    /\ periodic_resync_min = U64(30)
    /\ overflow_checks \in BOOLEAN
    /\ mins = NoneV
    /\ wait = NoneV
    /\ timerPc = "clamp"
    /\ resyncTicks = 0
    /\ FetchIdle
    /\ AnaIdle
    /\ \E b \in BucketChoices : hypeCfg = [HypeConfigOf(<<Num(350), Num(350), Num(200), Num(100)>>)
                        EXCEPT !.bucket_secs = b]
    /\ map = <<>>
    /\ ingested = <<>>
    /\ hypeSnap = NoneV
    /\ snapPool = 1
    /\ snapNow = 0
    /\ hypePc = "ingest"
    /\ DecInit
    /\ DedIdle
    /\ LockIdle

SpecHypeMem == HypeMemInit /\ [][Ingest]_vars

-----------------------------------------------------------------------------
(* The aggregator inside arb-notify: spawn_logs_ingestor feeds it from the *)
(* bus and handle_pool_event reads it when it builds the alert.            *)

MaxLogs == 2

\* Addresses are Pubkeys: the program of a ProgramLog is the watched program
\* or one whose address is also that of a pool account.
ProgramLogs ==
    {[kind |-> "ProgramLog", program |-> g, info |-> NoneV] : g \in {1, ProgramId}}

\* `PoolLogEvent { program, pool: program, signature, slot, logs: Vec::new(),
\*                 ts_ms: current_ms(), trader: None }`
PoolLogEventOf_swap(program, t) ==
    [pool |-> program, ts_ms |-> t, logs |-> <<LineSwap>>, trader |-> NoneV]

PoolLogEventOf(program, t) ==
    [pool |-> program, ts_ms |-> t, logs |-> <<>>, trader |-> NoneV]

PipeHypeOnly ==
    UNCHANGED <<sinkVars, watchVars, timerVars, fetchVars, anaVars, decVars,
               dedVars, lockVars>>

\* spawn_logs_ingestor's loop body for a received ProgramLog (the bus left
\* aside): it is ingested as a PoolLogEvent of pool = program, stamped with
\* the clock reading.
IngestorLog ==
    /\ Len(ingested) < MaxLogs
    /\ \E ev \in ProgramLogs :
          LET pl == PoolLogEventOf(ev.program, now)
          IN  /\ hypeKeys' = hypeKeys \cup {pl.pool}
              /\ map' = [p \in DOMAIN map \cup {pl.pool} |->
                           IF p = pl.pool
                           THEN ingest_series(hypeCfg, SeriesOf(map, p), pl)
                           ELSE map[p]]
              /\ ingested' = Append(ingested, <<pl.pool, pl.ts_ms>>)
    /\ UNCHANGED <<now, ticks, bus, busTail, next, pc, lagged, seen, evicted,
                   mint_cache, handlers>>
    /\ UNCHANGED <<hypeCfg, hypeSnap, snapPool, snapNow, hypePc>>
    /\ PipeHypeOnly

\* `let hype_snap = hype.snapshot(&pool).await;` then the bundle and the
\* alert are built around it.
AlertSnapshot(h) ==
    /\ handlers[h].hpc = "hype"
    /\ LET pool == handlers[h].pool
           snap == IF pool \in DOMAIN map
                   THEN Some(snapshot_series(hypeCfg, map[pool], now))
                   ELSE NoneV
           s == HypeField(IF snap = NoneV THEN "none" ELSE "some")
       IN  /\ handlers' = IF s = "abort"
                          THEN [handlers EXCEPT ![h].hpc = "failed", ![h].result = "err"]
                          ELSE [handlers EXCEPT ![h].hpc = "sink", ![h].hype = s]
           /\ hypeSnap' = snap
           /\ snapPool' = pool
           /\ snapNow' = now
    /\ UNCHANGED <<now, ticks, bus, busTail, next, pc, lagged, seen, evicted,
                   mint_cache, hypeKeys>>
    /\ UNCHANGED <<hypeCfg, map, ingested, hypePc>>
    /\ PipeHypeOnly

AlertHypeNext ==
    \/ IngestorLog
    \/ (PipelineAccepts /\ \A h \in HandlerIds : Spawned(h) => Returned(h))
    \/ \E h \in HandlerIds, side \in {"A", "B"} : FutCheck(h, side)
    \/ \E h \in HandlerIds, side \in {"A", "B"} : FutAnalyze(h, side)
    \/ \E h \in HandlerIds : HandlerLiq(h)
    \/ \E h \in HandlerIds : AlertSnapshot(h)
    \/ \E h \in HandlerIds : HandlerSink(h)
    \/ \E h \in HandlerIds : HandlerSend(h)
    \/ \E h \in HandlerIds : HandlerErrSink(h)

SpecAlertHype == HypeSpecInit /\ [][AlertHypeNext]_vars

\* Decoder calls in any order on any of the modelled inputs.
DecNext ==
    \/ DecodeOrca
    \/ DecodeRaydium
    \/ DecodePool

SpecDecode == Init /\ [][DecNext]_vars

\* Dedup calls in any order, at any clock readings, in both build profiles.
DedSpecInit ==
    /\ PipeInit
    /\ SinkInit
    /\ rotate = TRUE
    /\ WatchInit
    /\ TimerDefault
    /\ FetchIdle
    /\ AnaIdle
    /\ HypeIdle
    /\ DecInit
    /\ DedInit
    /\ LockIdle

DedNext ==
    \/ DedupCall
    \/ DedupInline

SpecDedup == DedSpecInit /\ [][DedNext]_vars

\* The pipeline loop and its handler tasks at the level of the two locks.
LockNext ==
    \/ LoopRecv
    \/ LockStep

SpecLocks == Init /\ [][LockNext]_vars

-----------------------------------------------------------------------------
(* Claims.                                                                 *)

SamePool(h1, h2) ==
    /\ h1 < h2
    /\ Spawned(h1)
    /\ Spawned(h2)
    /\ handlers[h1].pool = handlers[h2].pool

C2_ConsumersSurviveLag ==
    \A c \in Consumers : lagged[c] => pc[c] = "recv"

Emitted(h) ==
    \/ handlers[h].alertWrites > 0
    \/ handlers[h].tgCalls > 0
    \/ handlers[h].errRecs # <<>>

\* C5: if analyze failed for either mint the handler emits nothing (no
\* alerts_enriched record, no publisher call, no errors record); an alert
\* is emitted only when both analyses succeeded.
C5_AllOrNothing ==
    \A h \in HandlerIds :
        /\ handlers[h].anaFailed => ~Emitted(h)
        /\ Emitted(h) => (handlers[h].futA = "ok" /\ handlers[h].futB = "ok")

\* C5 witness: one analysis succeeded, the other failed, and the handler
\* ended without emitting.
C5_Witness ==
    \E h \in HandlerIds :
        /\ handlers[h].hpc = "failed"
        /\ handlers[h].anaFailed
        /\ "ok" \in {handlers[h].futA, handlers[h].futB}
        /\ ~Emitted(h)

RECURSIVE SplitLines(_, _)
SplitLines(f, cur) ==
    IF f = <<>> THEN <<>>
    ELSE IF Head(f) = "\n" THEN <<cur>> \o SplitLines(Tail(f), <<>>)
    ELSE SplitLines(Tail(f), Append(cur, Head(f)))

\* How many lines of file f are exactly the JSON text of record i.
CountIn(f, i) ==
    Cardinality({n \in 1..Len(SplitLines(f, <<>>)) : SplitLines(f, <<>>)[n] = JsonOf(i)})

\* dir/<stream>.jsonl, or dir/<stream>-<date of receipt>.jsonl when rotating.
ExpectedPath(i) ==
    [stream |-> recs[i].stream,
     date |-> IF rotate THEN Some(recs[i].recvDay) ELSE NoneV]

Written(i) == CountIn(files[ExpectedPath(i)], i) = 1

\* C3: a record the writer has received is, from the first tick after its
\* receipt on and unless that flush met an I/O failure, exactly one
\* newline-terminated line of the file of its stream, and in no other file.
C3_FlushedByNextTick ==
    \A i \in 1..MaxWrites :
        (recs[i].st = "ticked" /\ ~recs[i].ioLost) =>
            /\ \A p \in Paths :
                  CountIn(files[p], i) = IF p = ExpectedPath(i) THEN 1 ELSE 0
            /\ files[ExpectedPath(i)][Len(files[ExpectedPath(i)])] = "\n"

\* C3 witness: with daily rotation, a record received after the date
\* changed has been flushed by a tick to the file of that date.
C3_Witness ==
    \E i \in 1..MaxWrites :
        /\ recs[i].st = "ticked"
        /\ ~recs[i].ioLost
        /\ rotate
        /\ recs[i].recvDay = 1
        /\ Written(i)

\* C4: the writer drains on channel close: when it has exited, every handle
\* was dropped and every record write_json accepted (queued or buffered) is
\* in its file, short of an I/O failure.
C4_DrainOnClose ==
    wpc = "exited" =>
        /\ sinkHandles = 0
        /\ \A i \in 1..MaxWrites :
              (recs[i].st \in {"accepted", "received", "ticked"} /\ ~recs[i].ioLost)
                  => Written(i)

\* Positions of the events a snapshot itself published strictly between
\* positions i and j of the log.
SnapBetween(i, j) == {m \in (i + 1)..(j - 1) : published[m].src = "snap"}

\* The snapshot has returned: the loop is past it.
SnapshotOver(k) == k < snapId \/ runPc \in {"spawn_subs", "sleep"}

\* C8: every SnapshotFinished follows a SnapshotStarted of the same program
\* and snapshot; between the two the snapshot published nothing but its own
\* AccountNew events, one per decoded account, each for an account already
\* in the inventory; count is the number of those events; there is no other
\* SnapshotFinished in between.  A snapshot whose listing succeeded and
\* that has returned has its SnapshotFinished on the bus, a snapshot whose
\* listing failed has none.
C8_SnapshotBracket ==
    /\ \A j \in 1..Len(published) :
          published[j].kind = "SnapshotFinished" =>
             \E i \in 1..(j - 1) :
                /\ published[i].kind = "SnapshotStarted"
                /\ published[i].program = published[j].program
                /\ published[i].snap = published[j].snap
                /\ \A m \in SnapBetween(i, j) :
                      /\ published[m].kind = "AccountNew"
                      /\ published[m].program = published[j].program
                      /\ published[m].snap = published[j].snap
                      /\ published[m].known
                /\ published[j].count = Cardinality(SnapBetween(i, j))
                /\ listed[published[j].snap] # NoneV
                /\ {published[m].account : m \in SnapBetween(i, j)}
                      = listed[published[j].snap][1]
                /\ published[j].count = Cardinality(listed[published[j].snap][1])
    /\ \A k \in 1..Len(listed) :
          /\ (listed[k] # NoneV /\ SnapshotOver(k)) =>
                \E j \in 1..Len(published) :
                   published[j].kind = "SnapshotFinished" /\ published[j].snap = k
          /\ (listed[k] = NoneV) =>
                \A j \in 1..Len(published) :
                   published[j].snap = k => published[j].kind = "SnapshotStarted"

\* A snapshot of two accounts has finished, with a live event published
\* between its SnapshotStarted and its SnapshotFinished.
C8_Witness ==
    \E j \in 1..Len(published) :
       /\ published[j].kind = "SnapshotFinished"
       /\ published[j].count = 2
       /\ \E i \in 1..(j - 1) :
             /\ published[i].kind = "SnapshotStarted"
             /\ published[i].snap = published[j].snap
             /\ \E m \in (i + 1)..(j - 1) : published[m].src = "live"

\* C9: a live update is published as AccountNew exactly when its pool
\* account was not in the inventory when the update was classified, and as
\* AccountChanged when it was.
C9_InventoryDecides ==
    \A j \in 1..Len(published) :
       published[j].src = "live" =>
          (published[j].kind = "AccountNew" <=> ~published[j].known)

\* C10: the loop never fails to arm the timer, and the wait handed to each
\* sleep is exactly 60 * max(periodic_resync_min, 5) seconds: 300 seconds
\* for configured values below 5, the configured minutes otherwise.
C10_ResyncFloor ==
    /\ timerPc # "panicked"
    /\ wait # NoneV =>
          /\ wait[1] \o <<0>> = MulWide(max(periodic_resync_min, U64(5)), 60)
          /\ ~Less(wait[1], U64(300))

\* The log holds nothing but a ResyncTick: the tick was just published.
JustTicked == Len(published) = 1 /\ published[1].kind = "ResyncTick"

\* A SnapshotStarted of program g was published after the first event of
\* the log.
StartedSince(g) ==
    \E i \in 2..Len(published) :
       published[i].kind = "SnapshotStarted" /\ published[i].program = g

C12_ObservationOrder ==
    \A j \in 1..Len(published) : ~published[j].overtook

\* The futures that are inside analyze_mint for mint m.
Analyzing(m) ==
    {hs \in HandlerIds \X {"A", "B"} :
        /\ handlers[hs[1]].hpc = "join"
        /\ FutOf(hs[1], hs[2]) = "analyze"
        /\ MintOf(hs[1], hs[2]) = m}

Mints == Pools \cup {QuoteMint}

\* C13: with the handlers run one at a time, analyze runs for a mint only
\* while the cache holds no entry for it and never twice at once; a lookup
\* that finds the mint's entry completes without calling analyze and one
\* that finds none calls it; and an entry enters the cache only as the
\* result of a successful analysis of its mint (a failed one stores nothing).
C13_Memoized ==
    /\ [](\A m \in Mints :
             /\ Cardinality(Analyzing(m)) <= 1
             /\ Analyzing(m) # {} => m \notin LruKeys(mint_cache))
    /\ [][\A h \in HandlerIds, side \in {"A", "B"} :
             /\ (FutOf(h, side) = "check" /\ FutOf(h, side)' # "check") =>
                   /\ FutOf(h, side)' = "analyze"
                         <=> MintOf(h, side) \notin LruKeys(mint_cache)
                   /\ (side \in handlers'[h].analyzed)
                         <=> MintOf(h, side) \notin LruKeys(mint_cache)
             /\ (handlers[h].hpc # "failed" /\ handlers'[h].hpc = "failed") =>
                   mint_cache' = mint_cache
             /\ (MintOf(h, side) \in LruKeys(mint_cache') \ LruKeys(mint_cache)) =>
                   \E g \in HandlerIds, sd \in {"A", "B"} :
                      /\ MintOf(g, sd) = MintOf(h, side)
                      /\ FutOf(g, sd) = "analyze"
                      /\ FutOf(g, sd)' = "ok"]_vars

\* The first handler analyzed the quote mint and then failed on its other
\* mint; the next handler, for another pool, got the cached report of the
\* quote mint without calling analyze and is analyzing its own mint.
C13_Witness ==
    /\ handlers[1].hpc = "failed"
    /\ handlers[1].futB = "ok"
    /\ handlers[2].hpc = "join"
    /\ handlers[2].futB = "ok"
    /\ handlers[2].analyzed = {"A"}
    /\ handlers[2].pool # handlers[1].pool

\* 200 * 2^(k-1) ms, the wait after the k-th failed attempt.
Backoff(k) == InitialDelayMs * 2^(k - 1)

\* The fetch has made its calls one after another, each but the last a
\* failure, with the k-th wait after the k-th failure.
FetchShape ==
    /\ calls <= MAX_RETRIES
    /\ \A k \in 1..Len(waits) : waits[k] = Backoff(k)
    /\ Len(waits) <= MAX_RETRIES - 1
    /\ fetchPc = "call" => (Len(errs) = calls /\ Len(waits) = calls)
    /\ fetchPc = "sleep" => (Len(errs) = calls /\ Len(waits) = calls - 1)

\* C14: a mint account fetch makes at most 5 get_account calls; it returns
\* Ok at the first successful call; it has waited 200, 400, 800, 1600 ms
\* after the 1st..4th failed call; and it returns Err only after a 5th
\* failed call, with that call's error and without a 5th wait.
C14_FetchRetry ==
    /\ FetchShape
    /\ (fetchResult # NoneV /\ fetchResult[1] = "Ok") =>
          /\ Len(errs) = calls - 1
          /\ Len(waits) = calls - 1
    /\ (fetchResult # NoneV /\ fetchResult[1] # "Ok") =>
          /\ calls = MAX_RETRIES
          /\ Len(errs) = MAX_RETRIES
          /\ waits = <<200, 400, 800, 1600>>
          /\ fetchResult[1] = <<"Err", errs[MAX_RETRIES]>>

\* The same statement for TokenSafetyProvider::get_account_retry alone.
RetryPathConforms == fetchPath = "get_account_retry" => C14_FetchRetry

\* C15: every report analyze returns has decision_safe equal to "reasons is
\* empty", whatever the mint account, its owner program and the policy: a
\* report is unsafe exactly when a reason was appended, and warnings do not
\* change the decision.  The same holds of the inspector's Decision.
C15_SafeIffNoReasons ==
    /\ anaPc = "analyzed" => (report.decision_safe <=> report.reasons = <<>>)
    /\ anaPc = "decided" => (decision.safe <=> decision.reasons = <<>>)

\* A report that carries a warning and no reason, and is safe.
C15_Witness ==
    /\ anaPc = "analyzed"
    /\ report.warnings # <<>>
    /\ report.reasons = <<>>
    /\ report.decision_safe

HasExt(a, t) == \E i \in DOMAIN a.exts : a.exts[i].type = t

\* C16: for a token mint whose mint authority is present, analyze gives a
\* mint_authority warning and no mint_authority reason when
\* allow_mint_authority is true, and a mint_authority reason, hence
\* decision_safe = false, when it is false.
C16_MintAuthority ==
    (anaPc = "analyzed" /\ mintAcc.mint_authority) =>
        IF policy.allow_mint_authority
        THEN /\ Has(report.warnings, "mint_authority")
             /\ ~Has(report.reasons, "mint_authority")
        ELSE /\ Has(report.reasons, "mint_authority")
             /\ ~report.decision_safe

\* The inspector's Policy::evaluate treats the mint authority as stated,
\* under the name "mint_authority_present".
EvaluateMintAuthority ==
    (anaPc = "decided" /\ mintAcc.mint_authority /\ mintAcc.valid) =>
        IF policy.allow_mint_authority
        THEN /\ Has(decision.warnings, "mint_authority_present")
             /\ ~Has(decision.reasons, "mint_authority_present")
        ELSE /\ Has(decision.reasons, "mint_authority_present")
             /\ ~decision.safe

\* The flags whose reason depends on one option alone, with that option.
FlagOptions ==
    { <<"non_transferable", "forbid_non_transferable">>,
      <<"default_frozen", "forbid_default_frozen">>,
      <<"permanent_delegate", "forbid_permanent_delegate">>,
      <<"transfer_hook", "forbid_transfer_hook">>,
      <<"confidential", "forbid_confidential">>,
      <<"mint_close_authority", "forbid_mint_close_authority">> }

\* C17: in a report of analyze, the canonical reason of each extension flag
\* is present exactly when the flag is set and its forbid option is true (for
\* memo_required, also the route must lack memo support), "freeze_authority"
\* is present exactly when a freeze authority is present and
\* require_freeze_authority_none is true, and mint_close_authority with
\* forbid=false gives a warning.  Under the default policy a legacy mint
\* with a freeze authority and a non-transferable Token-2022 mint are unsafe
\* with reasons "freeze_authority" and "non_transferable".
C17_ReasonIffForbidden ==
    anaPc = "analyzed" =>
        /\ \A fo \in FlagOptions :
              Has(report.reasons, fo[1]) <=> (report.flags[fo[1]] /\ policy[fo[2]])
        /\ Has(report.reasons, "memo_required") <=>
              /\ report.flags.memo_required
              /\ policy.forbid_memo_required_if_route_no_memo
              /\ ~route_supports_memo
        /\ Has(report.reasons, "freeze_authority") <=>
              (mintAcc.freeze_authority /\ policy.require_freeze_authority_none)
        /\ (report.flags.mint_close_authority /\ ~policy.forbid_mint_close_authority)
              => Has(report.warnings, "mint_close_authority")
        /\ (policy = DefaultPolicy /\ mintAcc.owner = "TokenV1"
              /\ mintAcc.freeze_authority)
              => (~report.decision_safe /\ Has(report.reasons, "freeze_authority"))
        /\ (policy = DefaultPolicy /\ HasExt(mintAcc, "NonTransferable"))
              => (~report.decision_safe /\ Has(report.reasons, "non_transferable"))

\* A report with a forbidden flag and its reason beside a memo_required flag
\* that adds none because the route supports memo.
C17_Witness ==
    /\ anaPc = "analyzed"
    /\ report.flags.non_transferable
    /\ Has(report.reasons, "non_transferable")
    /\ report.flags.memo_required
    /\ policy.forbid_memo_required_if_route_no_memo
    /\ route_supports_memo
    /\ ~Has(report.reasons, "memo_required")

TransferFeeOf(a) ==
    a.exts[CHOOSE i \in DOMAIN a.exts : a.exts[i].type = "TransferFeeConfig"]

\* The fee records a TransferFeeConfig encodes.
Encoded(a) == {TransferFeeOf(a).older, TransferFeeOf(a).newer}

\* C18: for a Token-2022 mint with a TransferFee extension the report
\* records the basis points and the maximum fee the extension encodes (150
\* and 500 for a mint built with them), and a recorded fee above
\* max_fee_bps makes the decision unsafe; in both analyzers.
C18_TransferFeeRecorded ==
    /\ (anaPc = "analyzed" /\ HasExt(mintAcc, "TransferFeeConfig")) =>
          /\ report.flags.transfer_fee_bps # NoneV
          /\ report.flags.transfer_fee_max # NoneV
          /\ <<report.flags.transfer_fee_bps[1], report.flags.transfer_fee_max[1]>>
                \in Encoded(mintAcc)
          /\ report.flags.transfer_fee_bps[1] > policy.max_fee_bps
                => ~report.decision_safe
    /\ (anaPc \in {"inspected", "decided"} /\ HasExt(mintAcc, "TransferFeeConfig")) =>
          /\ safety.transfer_fee # NoneV
          /\ <<safety.transfer_fee[1].fee_bps, safety.transfer_fee[1].max_fee>>
                \in Encoded(mintAcc)
          /\ (anaPc = "decided" /\ safety.transfer_fee[1].fee_bps > policy.max_fee_bps)
                => ~decision.safe

\* token_decode::analyze_mint records the fee of epoch 0 and judges it.
DecodeRecordsFee ==
    (anaPc = "analyzed" /\ HasExt(mintAcc, "TransferFeeConfig")) =>
        /\ report.flags.transfer_fee_bps = Some(get_epoch_fee(TransferFeeOf(mintAcc), 0)[1])
        /\ report.flags.transfer_fee_max = Some(get_epoch_fee(TransferFeeOf(mintAcc), 0)[2])
        /\ report.flags.transfer_fee_bps[1] > policy.max_fee_bps
              => ~report.decision_safe

\* The events ingested for a pool, in order.
EventsOf(pool) == SelectSeq(ingested, LAMBDA e : e[1] = pool)

\* The bucket of the pool's most recently ingested event.
LatestBucket(pool) ==
    bucket_ts_of(hypeCfg, EventsOf(pool)[Len(EventsOf(pool))][2])

Stale(pool, i) ==
    LatestBucket(pool) - map[pool][i][1] > hypeCfg.window300s * 1000

\* C19: after any sequence of ingest calls for a pool, with timestamps in any
\* order, the pool's series holds no bucket more than window300s older than
\* the bucket of the most recently ingested event.
C19_NoStaleBucket ==
    \A pool \in DOMAIN map : \A i \in DOMAIN map[pool] : ~Stale(pool, i)

\* With timestamps that never decrease, no stale bucket is kept.
InOrder(pool) ==
    \A i, j \in DOMAIN EventsOf(pool) :
        i < j => EventsOf(pool)[i][2] <= EventsOf(pool)[j][2]

NoStaleBucketInOrder ==
    \A pool \in DOMAIN map :
        InOrder(pool) => \A i \in DOMAIN map[pool] : ~Stale(pool, i)

\* C20: after N events with timestamp t were ingested into a pool and
\* nothing else, the snapshot taken at time t has swaps_60s <= N (an event
\* counts as one swap however many of its lines mention a swap) and a score
\* within 0..100, whatever the weights.
C20_SnapshotBounds ==
    (/\ hypePc = "snapped"
     /\ hypeSnap # NoneV
     /\ \A i \in DOMAIN EventsOf(snapPool) : EventsOf(snapPool)[i][2] = snapNow)
    => /\ hypeSnap[1].swaps_60s <= Len(EventsOf(snapPool))
       /\ hypeSnap[1].score \in 0..100

\* Two events at time t, one of them the event with two swap lines and
\* nothing else, the other a swap with a buy: two swaps are reported.
C20_Witness ==
    /\ hypePc = "snapped"
    /\ hypeSnap # NoneV
    /\ Len(EventsOf(snapPool)) = 2
    /\ \A i \in DOMAIN EventsOf(snapPool) : EventsOf(snapPool)[i][2] = snapNow
    /\ hypeSnap[1].swaps_60s = 2
    /\ hypeSnap[1].buy_sell_ratio = <<1, 1>>
    /\ hypeSnap[1].lp_net_300s = 1
    /\ hypeSnap[1].score = 100

\* C21: the Orca decoder returns None exactly for inputs shorter than 181
\* bytes; for every longer input the PoolInfo has tick_spacing = the
\* little-endian u16 at byte 9, fee_bps = the little-endian u16 at byte 13,
\* base_mint = bytes 69..101 and quote_mint = bytes 149..181.
C21_OrcaLayout ==
    decIn.via = "orca_whirl" =>
        LET d == decIn.data
        IN  /\ decoded = NoneV <=> Len(d) < 181
            /\ decoded # NoneV =>
                  /\ decoded[1].tick_spacing = Some(d[10] + 256 * d[11])
                  /\ decoded[1].fee_bps = Some(d[14] + 256 * d[15])
                  /\ decoded[1].base_mint = Some([i \in 1..32 |-> d[69 + i]])
                  /\ decoded[1].quote_mint = Some([i \in 1..32 |-> d[149 + i]])

\* The 200-byte buffer with 3 at offset 9 and 5 at offset 13, decoded.
C21_Witness ==
    /\ decIn.via = "orca_whirl"
    /\ Len(decIn.data) = 200
    /\ decoded # NoneV
    /\ decoded[1].tick_spacing = Some(3)
    /\ decoded[1].fee_bps = Some(5)
    /\ decoded[1].base_mint = Some(Key(3))
    /\ decoded[1].quote_mint = Some(Key(4))

\* C22: for byte inputs of any length and each DexKind, decode_pool returns
\* None or Some(PoolInfo); every returned PoolInfo has base_mint and
\* quote_mint set and dex equal to the requested kind.
C22_DecodePoolTotal ==
    decIn.via = "decode_pool" =>
        \/ decoded = NoneV
        \/ /\ Len(decoded) = 1
           /\ decoded[1].base_mint # NoneV
           /\ decoded[1].quote_mint # NoneV
           /\ decoded[1].dex = decIn.kind

\* A Raydium pool record decoded on request of the RaydiumCpmm kind.
C22_Witness ==
    /\ decIn.via = "decode_pool"
    /\ decIn.kind = "RaydiumCpmm"
    /\ Len(decIn.data) = 238
    /\ decoded # NoneV
    /\ decoded[1].dex = "RaydiumCpmm"
    /\ decoded[1].base_mint = Some(Key(3))

IsRaydiumCall(call) == call.via = "raydium_clmm" \/ call.kind # "OrcaWhirlpools"

AmmConfigOf(d) == [i \in 1..32 |-> d[9 + i]]

\* C23: Raydium config and pool records may come in either order.  A
\* 117-byte input returns no PoolInfo and records account -> fee_bps; a pool
\* record (len > 237) gets fee_bps = Some(the recorded value) when its config
\* has been recorded and None when it has not, whenever it is decoded; any
\* other input of at most 237 bytes returns None and leaves the table alone.
C23_ConfigEitherOrder ==
    [][ IsRaydiumCall(decIn') =>
          LET d == decIn'.data
          IN  /\ Len(d) = 117 =>
                    /\ decoded' = NoneV
                    /\ decIn'.account \in DOMAIN CONFIG_FEES'
                    /\ CONFIG_FEES'[decIn'.account] =
                          ConfigFeeBps(SubSeq(d, 48, 51))
                    /\ \A k \in DOMAIN CONFIG_FEES \ {decIn'.account} :
                          k \in DOMAIN CONFIG_FEES' /\ CONFIG_FEES'[k] = CONFIG_FEES[k]
              /\ Len(d) > 237 =>
                    /\ decoded' # NoneV
                    /\ decoded'[1].fee_bps =
                          IF AmmConfigOf(d) \in DOMAIN CONFIG_FEES
                          THEN Some(CONFIG_FEES[AmmConfigOf(d)])
                          ELSE NoneV
                    /\ CONFIG_FEES' = CONFIG_FEES
              /\ (Len(d) <= 237 /\ Len(d) # 117) =>
                    /\ decoded' = NoneV
                    /\ CONFIG_FEES' = CONFIG_FEES ]_vars

\* A pool record that came back without a fee is decoded again after its
\* config (trade fee 300) was recorded, and has fee_bps = Some(3).
C23_Witness ==
    /\ IsRaydiumCall(decIn)
    /\ feeless = Some(<<decIn.account, decIn.data>>)
    /\ decoded # NoneV
    /\ decoded[1].fee_bps = Some(3)

\* C24: write_json fails with "sink closed" only after shutdown.  The writer
\* leaves its loop only when no FileSink handle is left, so no write_json
\* call (which needs a handle) is ever rejected; a full channel holds the
\* caller back instead of failing it.
C24_ClosedOnlyAfterShutdown ==
    /\ wpc = "exited" => sinkHandles = 0
    /\ \A i \in 1..MaxWrites : recs[i].st # "rejected"
    /\ Len(chan) <= ChanCap

\* The channel is full and a caller holding a handle has a value to write:
\* it waits, the writer is running, and earlier values were accepted.
C24_Witness ==
    /\ Len(chan) = ChanCap
    /\ sinkHandles > 0
    /\ wpc = "loop"
    /\ NextId = MaxWrites
    /\ \A i \in 1..(MaxWrites - 1) : recs[i].st = "accepted"

\* C25: an I/O failure while flushing a path is swallowed.  A record lost
\* to it is in no file and in no buffer afterwards (its batch is dropped,
\* never retried), the writer is still in its loop while a handle exists,
\* and every record flushed without a failure of its own, in the same tick
\* or a later one, is in its file.
C25_FlushFailureSwallowed ==
    \A i \in 1..MaxWrites :
        (recs[i].st = "ticked" /\ recs[i].ioLost) =>
            /\ \A p \in Paths : CountIn(files[p], i) = 0
            /\ \A p \in Paths : \A n \in 1..Len(buffers[p]) :
                  buffers[p][n] # LineOf(i)
            /\ sinkHandles > 0 => wpc = "loop"
            /\ \A j \in 1..MaxWrites :
                  (recs[j].st = "ticked" /\ ~recs[j].ioLost) => Written(j)

\* One record was lost to an I/O failure of its path; a record of the other
\* stream drained by the same tick is in its file, and so is a later record
\* of the failed path; the writer is still running.
C25_Witness ==
    \E i, j, k \in 1..MaxWrites :
        /\ recs[i].st = "ticked" /\ recs[i].ioLost
        /\ recs[j].st = "ticked" /\ ~recs[j].ioLost
        /\ j \in recs[i].batch
        /\ recs[j].stream # recs[i].stream
        /\ Written(j)
        /\ recs[k].st = "ticked" /\ ~recs[k].ioLost
        /\ k \notin recs[i].batch
        /\ ExpectedPath(k) = ExpectedPath(i)
        /\ Written(k)
        /\ wpc = "loop"

\* What the last dedup call found stored for its key.
DedupStored == LruValue(dedCall.before, dedCall.key)

\* The decision as stated: reject and keep the stored timestamp when one is
\* stored with now - ts < ttl, else store now and accept.
DedupAsStated ==
    IF LruHas(dedCall.before, dedCall.key) /\ dedCall.now - DedupStored < dedCall.ttl
    THEN /\ dedCall.outcome = "reject"
         /\ LruValue(dedCache, dedCall.key) = DedupStored
    ELSE /\ dedCall.outcome = "accept"
         /\ LruHas(dedCache, dedCall.key)
         /\ LruValue(dedCache, dedCall.key) = dedCall.now

\* C26: every dedup call rejects and leaves the stored timestamp when the
\* cache holds ts for the key with now - ts < ttl, and otherwise stores now
\* and accepts; the in-line check of the pipeline loop gives the outcome
\* and the cache that should_process gives on the same input.
C26_DedupDecision ==
    dedCall.via # "none" =>
        /\ DedupAsStated
        /\ dedCall.via = "inline" =>
              LET r == should_process_ttl(dedCall.before, dedCall.key,
                                          dedCall.now, ttl, dedChecks)
              IN  r.outcome = dedCall.outcome /\ r.cache = dedCache

\* The decision is as stated whenever the clock reading is not below the
\* stored timestamp, and the two checks always agree.
DedupForward ==
    dedCall.via # "none" =>
        /\ (LruHas(dedCall.before, dedCall.key) => dedCall.now >= DedupStored)
              => DedupAsStated
        /\ dedCall.via = "inline" =>
              LET r == should_process_ttl(dedCall.before, dedCall.key,
                                          dedCall.now, ttl, dedChecks)
              IN  r.outcome = dedCall.outcome /\ r.cache = dedCache

\* test_dedup_recent: accepted at 0, rejected at 500, accepted at 2000.
DedupScenario ==
    dedLog = << <<1, 0, 1000, "accept">>, <<1, 500, 1000, "reject">>,
                <<1, 2000, 1000, "accept">> >>

\* The last event handed to the bus.
LastPublished == published[Len(published)]

\* C27: in the program-accounts subscription an update is classified by
\* whether the inventory holds any pool of the program when it is
\* classified, the step before its upsert; it is upserted before it is
\* published, as AccountChanged when classified so and as AccountNew
\* otherwise.  Hence an update classified while the inventory holds a pool
\* of the program is AccountChanged.
C27_ClassifiedByProgramCount ==
    [][ \A g \in Programs :
          /\ (live[g] = NoneV /\ live'[g] # NoneV) =>
                /\ live'[g][1].existed = (inventory[g] # {})
                /\ live'[g][1].pc = "upsert"
          /\ (live[g] # NoneV /\ live'[g] # NoneV /\ live'[g][1].pc # live[g][1].pc) =>
                /\ live[g][1].pc = "upsert"
                /\ live'[g][1].pc = "publish"
                /\ live[g][1].account \in inventory'[g]
                /\ published' = published
          /\ (live[g] # NoneV /\ live'[g] = NoneV) =>
                /\ live[g][1].pc = "publish"
                /\ live[g][1].account \in inventory[g]
                /\ published' = Append(published, LastPublished')
                /\ LastPublished'.account = live[g][1].account
                /\ LastPublished'.program = g
                /\ LastPublished'.kind =
                      IF live[g][1].existed THEN "AccountChanged" ELSE "AccountNew" ]_vars

\* A live update of a pool the inventory did not hold was published as
\* AccountChanged: the program had another pool.
C27_Witness ==
    \E i \in 1..Len(published) :
        /\ published[i].src = "live"
        /\ published[i].kind = "AccountChanged"
        /\ ~published[i].known
        /\ published[i].account \in inventory[published[i].program]

\* C28: nothing a subscription produces is published, and no subscription
\* task exists, before the initial snapshot of every configured program has
\* returned; and each program has exactly one program-accounts and one logs
\* subscription task once they are spawned, never more.
C28_SnapshotThenSubscribed ==
    /\ (\E i \in 1..Len(published) : published[i].src \in {"live", "logs"})
          => attempted = Programs
    /\ \A g \in Programs :
          /\ live[g] # NoneV => attempted = Programs
          /\ (subs[g].accounts # "none" \/ subs[g].logs # "none")
                => attempted = Programs
          /\ subs[g].nAccounts = (IF subsOn THEN 1 ELSE 0)
          /\ subs[g].nLogs = (IF subsOn THEN 1 ELSE 0)

\* After a resync, with one subscription task of each kind per program, a
\* ProgramLog is on the bus.
C28_Witness ==
    /\ published # <<>>
    /\ published[1].kind = "ResyncTick"
    /\ \E i \in 1..Len(published) : published[i].src = "logs"
    /\ \A g \in Programs : subs[g].nAccounts = 1 /\ subs[g].nLogs = 1

\* The snapshot of program g, taken since the last tick, has failed.
FailedSnapshot(g) ==
    /\ Len(listed) >= g
    /\ listed[g] = NoneV
    /\ ~(runPc = "snap_fetch" /\ progIdx = g)

FinishedSnapshot(k) ==
    \E i \in 1..Len(published) :
        published[i].kind = "SnapshotFinished" /\ published[i].snap = k

\* A subscription task that ended stays ended (no second task is spawned,
\* no further live update is handled) while ResyncTick keeps being
\* published; and every pool a finished snapshot listed, also one the
\* inventory did not hold when the subscription ended, was published by
\* that snapshot as AccountNew.
ResyncRecovers ==
    /\ [][ \A g \in Programs :
              /\ subs[g].accounts = "ended" =>
                    /\ subs'[g].accounts = "ended"
                    /\ subs'[g].nAccounts = 1
                    /\ live'[g] = NoneV
              /\ subs[g].logs = "ended" =>
                    /\ subs'[g].logs = "ended"
                    /\ subs'[g].nLogs = 1 ]_vars
    /\ [](\A k \in 1..Len(listed) :
            FinishedSnapshot(k) =>
                /\ listed[k] # NoneV
                /\ \A a \in listed[k][1] :
                      \E j \in 1..Len(published) :
                          /\ published[j].kind = "AccountNew"
                          /\ published[j].src = "snap"
                          /\ published[j].snap = k
                          /\ published[j].program = k
                          /\ published[j].account = a)
    /\ \A g \in Programs :
          (subs[g].accounts = "ended" \/ subs[g].logs = "ended") ~> JustTicked

\* Both subscriptions of a program have ended, and a later resync snapshot
\* of the program has published as AccountNew a pool the inventory did not
\* hold when the accounts subscription ended.
RecoveredByResync ==
    \E g \in Programs :
        /\ subs[g].accounts = "ended"
        /\ subs[g].logs = "ended"
        /\ published[1].kind = "ResyncTick"
        /\ FinishedSnapshot(g)
        /\ \E j \in 1..Len(published) :
              /\ published[j].kind = "AccountNew"
              /\ published[j].src = "snap"
              /\ published[j].program = g
              /\ published[j].account \notin subs[g].atEnd

\* C30: a subscription loop that has ended, on a connection error or at the
\* end of its stream, has been logged and is not started again.
C30_EndLoggedNotRestarted ==
    \A g \in Programs :
        /\ subs[g].accounts = "ended" =>
              /\ "program subscribe failed" \in subs[g].logged
              /\ subs[g].nAccounts = 1
        /\ subs[g].logs = "ended" =>
              /\ "logs subscribe failed" \in subs[g].logged
              /\ subs[g].nLogs = 1

\* A future or the loop still has a step to take on an event in hand.
LockWorkLeft ==
    \/ loop.pc # "recv"
    \/ \E h \in LockTasks : tasks[h].st = "join"

\* C31: no future holds the mint-cache lock while its analysis is in
\* progress (the guard goes after the lookup and is taken again only for
\* the store), the dedup lock is held only inside the loop's
\* check-then-insert and is free when the task is spawned, and whoever
\* holds a lock can always release it, so the futures of one handler (also
\* with mint_a = mint_b) and the handlers of different pools never block
\* each other for good.
C31_NoLockAcrossAnalysis ==
    /\ \A h \in LockTasks, side \in Sides :
          (tasks[h].st = "join" /\ TaskFut(h, side) = "rpc")
              => mintLock # Some(<<h, side>>)
    /\ seenLock = "pipeline" => loop.pc = "locked"
    /\ loop.pc = "spawn" => seenLock = "free"
    /\ mintLock # NoneV =>
          /\ tasks[mintLock[1][1]].st = "join"
          /\ TaskFut(mintLock[1][1], mintLock[1][2]) \in {"locked1", "locked2"}
    /\ LockWorkLeft => ENABLED LockStep

\* One handler with mint_a = mint_b has one future in its analysis while
\* the other holds the lock, and a handler of another pool waits for it.
C31_Witness ==
    \E h \in LockTasks, g \in LockTasks :
        /\ tasks[h].st = "join"
        /\ tasks[h].mint_a = tasks[h].mint_b
        /\ tasks[h].futA = "rpc"
        /\ mintLock = Some(<<h, "B">>)
        /\ tasks[g].st = "join"
        /\ tasks[g].pool # tasks[h].pool
        /\ tasks[g].futA \in {"lock1", "lock2"}

\* The mint account under analysis belongs to neither token program.
ForeignMint == mintAcc.owner \in ForeignOwners

NoExtensionFlags(f) ==
    /\ ~f.non_transferable /\ ~f.default_frozen /\ ~f.permanent_delegate
    /\ ~f.transfer_hook /\ ~f.memo_required /\ ~f.confidential
    /\ ~f.mint_close_authority

\* token_decode::analyze_mint on a foreign owner: Other(owner), zero
\* decimals and supply, both authorities absent, nothing flagged, safe
\* under every policy.
DecodeOtherOwner ==
    (ForeignMint /\ anaPc = "analyzed") =>
        /\ report.program = Other(mintAcc.owner)
        /\ report.decimals = 0
        /\ report.supply = 0
        /\ report.mint_authority_none
        /\ report.freeze_authority_none
        /\ NoExtensionFlags(report.flags)
        /\ report.flags.transfer_fee_bps = NoneV
        /\ report.flags.transfer_fee_max = NoneV
        /\ report.reasons = <<>>
        /\ report.warnings = <<>>
        /\ report.decision_safe

DecodedOtherOwner ==
    /\ ForeignMint
    /\ anaPc = "analyzed"
    /\ mintAcc.valid
    /\ policy = DefaultPolicy

\* C32: for a mint owned by neither token program the analysis reports
\* owner Other, decimals 0, supply 0, both authority-none flags true, no
\* extension flag, no reason and no warning, and the decision is safe
\* under every policy; in the pipeline's analysis and in the inspector's.
C32_OtherOwnerZeroSafe ==
    /\ DecodeOtherOwner
    /\ (ForeignMint /\ anaPc \in {"inspected", "decided"}) =>
          /\ safety.program_owner = "Other"
          /\ safety.decimals = 0
          /\ safety.supply = 0
          /\ safety.flags.mint_authority_none
          /\ safety.flags.freeze_authority_none
          /\ NoExtensionFlags(safety.flags)
          /\ safety.transfer_fee = NoneV
    /\ (ForeignMint /\ anaPc = "decided") =>
          /\ decision.safe
          /\ decision.reasons = <<>>
          /\ decision.warnings = <<>>

\* The age of a bucket at a clock reading, as the difference of the two
\* readings (0 for a bucket of the future).
AgeOf(now_ms, ts) == IF ts >= now_ms THEN 0 ELSE now_ms - ts

\* The sum of one counter over the buckets at most `win` ms old.
RECURSIVE FreshSum(_, _, _, _)
FreshSum(buckets, now_ms, win, f) ==
    IF buckets = <<>>
    THEN 0
    ELSE (IF AgeOf(now_ms, buckets[1][1]) <= win THEN buckets[1][2][f] ELSE 0)
         + FreshSum(Tail(buckets), now_ms, win, f)

FreshUniques(buckets, now_ms, win) ==
    UNION { buckets[i][2].uniques :
              i \in { j \in DOMAIN buckets : AgeOf(now_ms, buckets[j][1]) <= win } }

SortedSeries(buckets) ==
    \A i, j \in DOMAIN buckets : i < j => buckets[i][1] <= buckets[j][1]

\* What a snapshot of the series at snapNow may report.
SnapshotWithinWindows ==
    (hypePc = "snapped" /\ snapPool \in DOMAIN map) =>
        /\ hypeSnap # NoneV
        /\ LET s == hypeSnap[1]
               b == map[snapPool]
               sells == FreshSum(b, snapNow, 60000, "sells")
           IN  /\ s.swaps_60s <= FreshSum(b, snapNow, 60000, "swaps")
               /\ s.buy_sell_ratio[1] <= FreshSum(b, snapNow, 60000, "buys")
               /\ s.buy_sell_ratio[2] <= (IF sells = 0 THEN 1 ELSE sells)
               /\ s.unique_traders_60s
                     <= Cardinality(FreshUniques(b, snapNow, 60000))
               /\ SortedSeries(b) =>
                     /\ s.swaps_60s = FreshSum(b, snapNow, 60000, "swaps")
                     /\ s.buy_sell_ratio
                           = <<FreshSum(b, snapNow, 60000, "buys"),
                               IF sells = 0 THEN 1 ELSE sells>>
                     /\ s.unique_traders_60s
                           = Cardinality(FreshUniques(b, snapNow, 60000))
                     /\ s.lp_net_300s
                           = FreshSum(b, snapNow, 300000, "lp_adds")
                             - FreshSum(b, snapNow, 300000, "lp_rems")
               /\ (\A i \in DOMAIN b : AgeOf(snapNow, b[i][1]) > 300000) =>
                     /\ s.swaps_60s = 0
                     /\ s.unique_traders_60s = 0
                     /\ s.lp_net_300s = 0
                     /\ s.score = 0

\* C33: a snapshot counts swaps, buys, sells and unique traders only from
\* buckets at most 60 s older than now and lp_net only from buckets at most
\* 300 s older than now, and leaves the series as it was; a pool whose
\* buckets are all older than 300 s (swaps ingested at 0, snapshot at
\* 400000 ms) has a snapshot with swaps_60s = 0, lp_net_300s = 0, score = 0.
C33_SnapshotWindows ==
    /\ []SnapshotWithinWindows
    /\ [][hypePc' = "snapped" => map' = map]_vars

\* Only swaps at t = 0 were ingested for the pool, more than one of them,
\* and its snapshot at 400000 ms is present and all zero.
C33_Witness ==
    /\ hypePc = "snapped"
    /\ snapNow = 400000
    /\ snapPool \in DOMAIN map
    /\ Len(map[snapPool]) = 1
    /\ map[snapPool][1][1] = 0
    /\ map[snapPool][1][2].swaps = MaxIngest
    /\ hypeSnap # NoneV
    /\ hypeSnap[1].swaps_60s = 0
    /\ hypeSnap[1].score = 0

\* The timestamps of the events ingested so far for the pool, in order.
RECURSIVE TimesOf(_, _)
TimesOf(log, pool) ==
    IF log = <<>> THEN <<>>
    ELSE (IF log[1][1] = pool THEN <<log[1][2]>> ELSE <<>>) \o TimesOf(Tail(log), pool)

NonDecreasing(s) == \A i, j \in DOMAIN s : i < j => s[i] <= s[j]

\* window300s / bucket_secs + 1 and "a multiple of bucket_secs * 1000", in
\* unbounded integers: a bucket_secs of 2^31 or more exceeds every window
\* and every timestamp of the model.
BucketBound(c) ==
    IF IsSmall(c.bucket_secs) THEN c.window300s \div Small(c.bucket_secs) + 1 ELSE 1

MultipleOfWidth(c, ts) ==
    IF IsSmall(c.bucket_secs) /\ Small(c.bucket_secs) < 2^20
    THEN ts % (Small(c.bucket_secs) * 1000) = 0
    ELSE ts = 0

SeriesBounded(c, pool) ==
    LET b == map[pool]
    IN  /\ \A i, j \in DOMAIN b : i < j => b[i][1] < b[j][1]
        /\ \A i \in DOMAIN b : MultipleOfWidth(c, b[i][1])
        /\ Len(b) <= BucketBound(c)

\* C34: with events ingested in non-decreasing ts_ms order and
\* bucket_secs >= 1, after every ingest the bucket timestamps of the series
\* are strictly increasing multiples of the bucket width and the series
\* holds at most window300s / bucket_secs + 1 buckets.
C34_SeriesBounded ==
    \A pool \in DOMAIN map :
        NonDecreasing(TimesOf(ingested, pool)) => SeriesBounded(hypeCfg, pool)

\* The same where bucket_secs * 1000 fits a u64.
SeriesBoundedNoOverflow ==
    \A pool \in DOMAIN map :
        (NonDecreasing(TimesOf(ingested, pool)) /\ ~Overflows(hypeCfg.bucket_secs, 1000))
            => SeriesBounded(hypeCfg, pool)

\* A series at its bound: two buckets with a bucket as wide as the window.
SeriesAtBound ==
    \E pool \in DOMAIN map :
        /\ NonDecreasing(TimesOf(ingested, pool))
        /\ hypeCfg.bucket_secs = U64(300)
        /\ Len(map[pool]) = BucketBound(hypeCfg)
        /\ Len(TimesOf(ingested, pool)) = MaxIngest

\* (trade_fee * 10000) / 1000000 in unbounded integers, for the trade_fee
\* whose little-endian bytes are b: the quotient by 100, by long division.
TradeFeeBps(b) ==
    LET lo == b[1] + 256 * b[2]
        hi == b[3] + 256 * b[4]
    IN  (hi \div 100) * 65536 + ((hi % 100) * 65536 + lo) \div 100

ConfigRecorded ==
    /\ IsRaydiumCall(decIn)
    /\ Len(decIn.data) = 117

\* C35: for every 32-bit trade_fee of a 117-byte Raydium config record the
\* fee_bps stored in the config table is (trade_fee * 10000) / 1000000,
\* with nothing lost when the quotient is narrowed to 16 bits.
C35_FeeBpsExact ==
    ConfigRecorded =>
        /\ decIn.account \in DOMAIN CONFIG_FEES
        /\ CONFIG_FEES[decIn.account] = TradeFeeBps(SubSeq(decIn.data, 48, 51))

\* The same for the trade fees whose quotient fits 16 bits.
FeeBpsExactInRange ==
    (ConfigRecorded /\ TradeFeeBps(SubSeq(decIn.data, 48, 51)) < 65536) =>
        /\ decIn.account \in DOMAIN CONFIG_FEES
        /\ CONFIG_FEES[decIn.account] = TradeFeeBps(SubSeq(decIn.data, 48, 51))

\* The config of the decoder test: trade fee 300 recorded as 3.
FeeBpsOfTest ==
    /\ ConfigRecorded
    /\ SubSeq(decIn.data, 48, 51) = <<44, 1, 0, 0>>
    /\ CONFIG_FEES[decIn.account] = 3

\* Handler g serves a later event of the pool of handler h.
LaterSamePool(h, g) ==
    /\ h < g
    /\ Spawned(h)
    /\ Spawned(g)
    /\ handlers[g].pool = handlers[h].pool

\* The enrichment of handler h failed on a mint analysis.
EnrichmentFailed(h) == handlers[h].hpc = "failed" /\ handlers[h].anaFailed

DedupUnderflowed ==
    /\ LruHas(dedCall.before, dedCall.key)
    /\ SubLt(dedCall.now, DedupStored, dedCall.ttl, dedChecks)
          # SubLt(dedCall.now, DedupStored, dedCall.ttl, ~dedChecks)

\* C37: the dedup check is total over timestamps: for every clock reading
\* and every stored timestamp of the key, a clock reading below the stored
\* timestamp included, now - ts does not underflow and the check returns
\* accept or reject.
C37_DedupTotal ==
    dedCall.via # "none" =>
        /\ ~DedupUnderflowed
        /\ dedCall.outcome \in {"accept", "reject"}

\* The check underflows only when the clock reading is below the stored
\* timestamp, and then it panics exactly in a build with overflow checks.
DedupTotalForward ==
    dedCall.via # "none" =>
        /\ DedupUnderflowed
              <=> (LruHas(dedCall.before, dedCall.key) /\ dedCall.now < DedupStored)
        /\ dedCall.outcome = "panic" <=> (DedupUnderflowed /\ dedChecks)
        /\ dedCall.outcome \in {"accept", "reject", "panic"}

\* A clock reading below the stored timestamp in a build without overflow
\* checks: the wrapped difference is not below ttl and the event is accepted.
DedupWrapped ==
    /\ dedCall.via = "inline"
    /\ DedupUnderflowed
    /\ ~dedChecks
    /\ dedCall.outcome = "accept"

\* Programs whose ProgramLog the ingestor has ingested.
IngestedPrograms == {ingested[i][1] : i \in 1..Len(ingested)}

\* A bucket no log line and no trader was counted into.
EmptyBucket(b) ==
    /\ b.swaps = 0 /\ b.buys = 0 /\ b.sells = 0
    /\ b.lp_adds = 0 /\ b.lp_rems = 0
    /\ b.uniques = {}

\* The alert of handler h is built.
AlertBuilt(h) == handlers[h].hpc \in {"sink", "send", "errsink", "done"}

\* C38: in the running pipeline the hype series are keyed by program
\* address: every ingested ProgramLog went, with no log lines and no
\* trader, into the series of its program's address, while an alert looks
\* the series up by the pool's account address; so an alert's hype is
\* present only if the pool's address is that of a program with an
\* ingested ProgramLog, and every snapshot attached to an alert has
\* swaps_60s, unique_traders_60s, lp_net_300s and score all 0.
C38_HypeKeyedByProgram ==
    /\ DOMAIN map = IngestedPrograms
    /\ hypeKeys = IngestedPrograms
    /\ \A p \in DOMAIN map : \A i \in 1..Len(map[p]) : EmptyBucket(map[p][i][2])
    /\ \A h \in HandlerIds :
          AlertBuilt(h) =>
              (handlers[h].hype = "some" => handlers[h].pool \in IngestedPrograms)
    /\ hypeSnap # NoneV =>
          /\ snapPool \in IngestedPrograms
          /\ hypeSnap[1].swaps_60s = 0
          /\ hypeSnap[1].unique_traders_60s = 0
          /\ hypeSnap[1].lp_net_300s = 0
          /\ hypeSnap[1].score = 0

\* C38 witness: an alert was built for a pool whose address is also that of
\* a program with an ingested ProgramLog, and carries the empty snapshot;
\* another alert, of a pool without one, carries no hype.
C38_Witness ==
    \E h, g \in HandlerIds :
        /\ AlertBuilt(h)
        /\ handlers[h].hype = "some"
        /\ hypeSnap # NoneV
        /\ snapPool = handlers[h].pool
        /\ hypeSnap[1].score = 0
        /\ AlertBuilt(g)
        /\ handlers[g].hype = "none"
        /\ IngestedPrograms # {}

\* The forbid_* and require_* options of a policy.
StrictSwitches == PolicySwitches \ {"allow_mint_authority"}

\* The policies got from p by turning any of its forbid_* or require_*
\* options from false to true and lowering max_fee_bps (p itself included).
Stricter(p) ==
    { [f \in DOMAIN p |->
          IF f \in StrictSwitches THEN p[f] \/ f \in on
          ELSE IF f = "max_fee_bps" THEN cap
          ELSE p[f]] :
        on \in SUBSET StrictSwitches,
        cap \in {c \in {49, 100} : c <= p.max_fee_bps} }

AnalyzedStricter ==
    /\ anaPc = "analyzed"
    /\ \/ /\ ~report.decision_safe
          /\ \E q \in Stricter(policy) :
                Len(analyze_mint(mintAcc, route_supports_memo, q).rep.reasons)
                    > Len(report.reasons)
       \/ /\ report.decision_safe
          /\ \E q \in Stricter(policy) :
                /\ q.max_fee_bps < policy.max_fee_bps
                /\ \A f \in StrictSwitches : q[f] = policy[f]
                /\ ~analyze_mint(mintAcc, route_supports_memo, q).rep.decision_safe

\* The records whose lines file f holds, in file order.
IdsIn(f) ==
    [n \in 1..Len(SplitLines(f, <<>>)) |->
        IdOfLine(Append(SplitLines(f, <<>>)[n], "\n"))]

\* Records the writer has taken from the channel.
Received(i) == recs[i].st \in {"received", "ticked"}

\* Every file holds records of its own stream only, in the order the
\* writer received them (values are numbered in that order); with rotation
\* a stream's earlier file holds its earlier records; no record is in two
\* files or twice in one, and none is both buffered and in a file.
FilesInReceiveOrder ==
    /\ \A p \in Paths :
          LET ids == IdsIn(files[p])
          IN  /\ \A n \in 1..Len(ids) :
                    /\ Received(ids[n])
                    /\ recs[ids[n]].stream = p.stream
              /\ \A k, n \in 1..Len(ids) : k < n => ids[k] < ids[n]
    /\ \A p, q \in Paths :
          (p.stream = q.stream /\ p.date # NoneV /\ q.date # NoneV
             /\ p.date[1] < q.date[1]) =>
              \A k \in 1..Len(IdsIn(files[p])), n \in 1..Len(IdsIn(files[q])) :
                  IdsIn(files[p])[k] < IdsIn(files[q])[n]
    /\ \A i \in 1..MaxWrites :
          /\ Cardinality({p \in Paths : CountIn(files[p], i) > 0}) <= 1
          /\ \A p \in Paths : CountIn(files[p], i) <= 1
          /\ (\E p \in Paths : \E n \in 1..Len(buffers[p]) : buffers[p][n] = LineOf(i))
                => \A p \in Paths : CountIn(files[p], i) = 0

\* The writer takes the records in the order of their numbers.
ReceivedInOrder ==
    \A i \in 1..MaxWrites :
        (~Received(i) /\ Received(i)') =>
            \A j \in 1..MaxWrites : Received(j) => j < i

\* C40: the records of one stream are appended to that stream's file in the
\* order the writer received them, across any number of ticks, and no
\* accepted record is written more than once: a flush empties the buffers
\* it wrote.
C40_AppendOrder == []FilesInReceiveOrder /\ [][ReceivedInOrder]_vars

\* C40 witness: one file holds two records of its stream flushed by
\* different ticks, the earlier received first, while a record of the
\* other stream received between the two is in the other stream's file.
C40_Witness ==
    \E i, j, k \in 1..MaxWrites :
        /\ i < k /\ k < j
        /\ recs[i].st = "ticked" /\ recs[j].st = "ticked" /\ recs[k].st = "ticked"
        /\ j \notin recs[i].batch
        /\ ExpectedPath(i) = ExpectedPath(j)
        /\ recs[k].stream # recs[i].stream
        /\ Written(i) /\ Written(j) /\ Written(k)
        /\ IdsIn(files[ExpectedPath(i)]) = <<i, j>>

=============================================================================
